---- MODULE Spec2Model ----
(***************************************************************************)
(* A model of the NSX-v3 router helpers (nsxlib/v3/router.py) and of the   *)
(* native DHCP binding reconciliation of the NSX-v3 plugin.                *)
(*                                                                         *)
(* The backend (nsxlib) is a set of objects the helpers read and write.    *)
(* Every operation of the program is one action; it leaves in `op` what it *)
(* was called with, how it ended and the backend calls it issued, in       *)
(* order. Where two consecutive calls are compared (validate_tier0, the    *)
(* router interface ports) the record before it is kept in `prev`.         *)
(***************************************************************************)
EXTENDS Integers, Sequences, FiniteSets, TLC

(* ----------------------------- bounds ---------------------------------- *)
\* The largest edge cluster the backend holds.
MaxMembers == 2
\* The backend hands out logical router port ids 1..MaxPortId.
MaxPortId == 4
\* The most fixed IPs a compute port is given.
MaxFixedIps == 2
\* The backend hands out DHCP server and binding ids 1..MaxNsxId.
MaxNsxId == 3
\* The ids of DHCP objects a resync may still take.
MaxResyncNsxId == 4
\* The logical router port ids the calls in flight at the same time may take.
MaxRacePortId == 2

(* ------------------------ program constants ---------------------------- *)
MIN_EDGE_NODE_NUM == 1
TIER0_ROUTER_LINK_PORT_NAME == "TIER0-RouterLinkPort"
TIER1_ROUTER_LINK_PORT_NAME == "TIER1-RouterLinkPort"
ROUTER_INTF_PORT_NAME == "Tier1-RouterDownLinkPort"
LROUTERPORT_LINK == "LogicalRouterLinkPort"
LROUTERPORT_DOWNLINK == "LogicalRouterDownLinkPort"

(* ------------------------------ values --------------------------------- *)
None == "None"
Tier0Ids == {"t0a", "t0b"}
Tier1Ids == {"t1a", "t1b"}
ClusterIds == {"ec1", "ec2"}
\* The logical switch ports, each on one logical switch.
LspIds == {<<"ls1", "p1">>, <<"ls1", "p2">>, <<"ls2", "p1">>}
LsOfPort(lsp) == lsp[1]
\* The address groups a caller may pass for a router interface.
AddressGroups == {"ag1", "ag2"}

\* The members of an edge cluster with n edge nodes.
Members(n) == [i \in 1..n |-> [member_index |-> i - 1]]
\* What the backend may hold for a tier0 router and for an edge cluster.
LRouterValues ==
    [found : {FALSE}, edge_cluster_id : {None}]
        \cup [found : {TRUE}, edge_cluster_id : ClusterIds \cup {None}]
ClusterValues ==
    {[found |-> FALSE, members |-> <<>>]}
        \cup {[found |-> TRUE, members |-> Members(n)] : n \in 0..MaxMembers}

(* The one Neutron network of the model, its subnets and compute ports. *)
NetworkId == "net1"
SubnetIds == {"s1", "s2"}
PortIds == {"port1", "port2"}
\* The compute port of the runs with one port.
SinglePortIds == {"port1"}
MacAddresses == {"11:22:33:44:55:66", "22:33:44:55:66:77"}
PortNames == {"abc", "xyz"}
NATIVE_METADATA_ROUTE == "cfg.CONF.nsx_v3.native_metadata_route"
DHCP_LEASE_TIME == "cfg.CONF.nsx_v3.dhcp_lease_time"

\* A string is the sequence of its characters.
Str10 == <<"1", "0">>
\* The dotted form of an IPv4 address, from its four octets.
Dotted(octets) ==
    octets[1] \o <<".">> \o octets[2] \o <<".">> \o octets[3] \o <<".">> \o octets[4]
\* The addresses in use, all of subnet s1 (10.0.0.0/24; s2 is 20.0.0.0/24).
Octets ==
    <<  <<Str10, <<"0">>, <<"0">>, <<"3">> >>,
        <<Str10, <<"0">>, <<"0">>, <<"4">> >>,
        <<Str10, <<"0">>, <<"0">>, <<"5">> >>,
        <<Str10, <<"0">>, <<"0">>, <<"6">> >>  >>
SubnetOfOctets(o) == IF o[1] = Str10 THEN "s1" ELSE "s2"
\* The entries a port's fixed_ips may hold.
FixedIpOf(o) == [subnet_id |-> SubnetOfOctets(o), ip_address |-> Dotted(o)]
\* The entries at the places `at` of Octets, in that order.
RECURSIVE FixedIpsAt(_)
FixedIpsAt(at) ==
    IF at = {} THEN <<>>
    ELSE LET first == CHOOSE i \in at : \A j \in at : i <= j
         IN  <<FixedIpOf(Octets[first])>> \o FixedIpsAt(at \ {first})
\* The fixed_ips lists a port is given: up to MaxFixedIps addresses.
FixedIpLists ==
    {FixedIpsAt(at) : at \in {x \in SUBSET DOMAIN Octets : Cardinality(x) <= MaxFixedIps}}

NoSubnet == [exists |-> FALSE, enable_dhcp |-> FALSE]
NoPort == [exists |-> FALSE, mac_address |-> None, fixed_ips |-> <<>>, name |-> None]
NoServiceBinding == [bound |-> FALSE, port_id |-> None, nsx_service_id |-> 0]

NotCached == [cached |-> FALSE, edge_cluster_uuid |-> None, member_index_list |-> <<>>]

VARIABLES
    lrouters,           \* backend: tier0 id -> logical router
    edge_clusters,      \* backend: edge cluster id -> edge cluster
    lrouter_ports,      \* backend: the logical router ports
    next_port_id,       \* backend: the id the next created port gets
    tier0_groups_dict,  \* the tier0 validation cache
    neutron_subnets,    \* Neutron: subnet id -> subnet
    neutron_ports,      \* Neutron: port id -> compute port
    nsx_service_binding,\* mapping table: the network's DhcpServiceBinding row
    nsx_dhcp_bindings,  \* mapping table: the DhcpBinding rows
    dhcp_servers,       \* backend: the logical DHCP servers' ids
    dhcp_static_bindings,\* backend: the static bindings of the DHCP servers
    next_nsx_id,        \* backend: the id the next DHCP object gets
    conf,               \* cfg.CONF: the options of native DHCP and metadata
    neutron_network,    \* Neutron: the network exists
    dhcp_port,          \* Neutron: the network has its DHCP-owned port
    op,                 \* the last operation
    prev,               \* the operation before it, where that is kept
    threads             \* the calls in flight: what each has read so far

routerVars == <<lrouters, edge_clusters, lrouter_ports, next_port_id,
                tier0_groups_dict>>
dhcpVars == <<neutron_subnets, neutron_ports, nsx_service_binding, nsx_dhcp_bindings,
              dhcp_servers, dhcp_static_bindings, next_nsx_id, conf,
              neutron_network, dhcp_port>>
vars == <<routerVars, dhcpVars, op, prev, threads>>

backendVars == <<lrouters, edge_clusters, lrouter_ports, next_port_id>>

\* The callers that may have a call in flight at the same time.
Threads == {"th1", "th2"}
\* A caller with no call in flight.
Idle == [pc |-> "idle", args |-> <<>>, seen |-> <<>>]

NoOp == [name |-> "none", args |-> <<>>, outcome |-> "return", calls |-> <<>>]
\* A backend call: what was called, with what, and how the call ended ("ok" or
\* the exception it raised).
Call(fn, args, ret) == [fn |-> fn, args |-> args, ret |-> ret]
\* The record an operation leaves.
Done(name, args, outcome, calls) ==
    [name |-> name, args |-> args, outcome |-> outcome, calls |-> calls]
\* The record an update leaves: also the attributes it gave another value.
DoneUpdate(name, args, outcome, calls, changed) ==
    [name |-> name, args |-> args, outcome |-> outcome, calls |-> calls,
     changed |-> changed]

\* cfg.CONF as it is without overrides, and as the plugin runs native DHCP.
DefaultConf ==
    [dhcp_agent_notification |-> TRUE, native_dhcp_metadata |-> FALSE,
     dhcp_profile_uuid |-> "", metadata_proxy_uuid |-> ""]
NativeConf ==
    [dhcp_agent_notification |-> FALSE, native_dhcp_metadata |-> TRUE,
     dhcp_profile_uuid |-> "prof1", metadata_proxy_uuid |-> "md1"]

InitBut(options) ==
    /\ conf = options
    /\ neutron_network = FALSE
    /\ dhcp_port = FALSE
    /\ lrouters = [t \in Tier0Ids |-> [found |-> FALSE, edge_cluster_id |-> None]]
    /\ edge_clusters = [c \in ClusterIds |-> [found |-> FALSE, members |-> <<>>]]
    /\ lrouter_ports = {}
    /\ next_port_id = 1
    /\ tier0_groups_dict = [t \in Tier0Ids |-> NotCached]
    /\ neutron_subnets = [s \in SubnetIds |-> NoSubnet]
    /\ neutron_ports = [p \in PortIds |-> NoPort]
    /\ nsx_service_binding = NoServiceBinding
    /\ nsx_dhcp_bindings = {}
    /\ dhcp_servers = {}
    /\ dhcp_static_bindings = {}
    /\ next_nsx_id = 1
    /\ op = NoOp
    /\ prev = NoOp
    /\ threads = [th \in Threads |-> Idle]

Init == InitBut(DefaultConf)
\* The plugin started with native DHCP and metadata configured.
InitNative == InitBut(NativeConf)

(* ------------------------- the backend changes -------------------------- *)
\* An administrator creates, deletes or reconfigures a tier0 router.
SetLogicalRouter(t, v) ==
    /\ lrouters[t] # v
    /\ lrouters' = [lrouters EXCEPT ![t] = v]
    /\ op' = Done("backend_change", <<t>>, "return", <<>>)
    /\ prev' = op
    /\ UNCHANGED threads
    /\ UNCHANGED <<edge_clusters, lrouter_ports, next_port_id, tier0_groups_dict>>
    /\ UNCHANGED dhcpVars

\* An administrator creates, deletes or resizes an edge cluster.
SetEdgeCluster(c, v) ==
    /\ edge_clusters[c] # v
    /\ edge_clusters' = [edge_clusters EXCEPT ![c] = v]
    /\ op' = Done("backend_change", <<c>>, "return", <<>>)
    /\ prev' = op
    /\ UNCHANGED threads
    /\ UNCHANGED <<lrouters, lrouter_ports, next_port_id, tier0_groups_dict>>
    /\ UNCHANGED dhcpVars

(* --------------------------- validate_tier0 ----------------------------- *)
\* tier0_uuid in tier0_groups_dict
CacheHitAlwaysMiss(dict, tier0_uuid) == FALSE
CacheHit(dict, tier0_uuid) == dict[tier0_uuid].cached

\* len(member_index_list) < MIN_EDGE_NODE_NUM
TooFewMembersOffByOne(member_index_list) == Len(member_index_list) <= MIN_EDGE_NODE_NUM
TooFewMembers(member_index_list) == Len(member_index_list) < MIN_EDGE_NODE_NUM

\* A list that is never empty: index 0 stands in for a cluster without members.
MemberIndexListOrDefault(edge_cluster) ==
    IF edge_cluster.members = <<>> THEN <<0>>
    ELSE [i \in DOMAIN edge_cluster.members |-> edge_cluster.members[i].member_index]
\* [member['member_index'] for member in edge_cluster['members']]
MemberIndexList(edge_cluster) ==
    [i \in DOMAIN edge_cluster.members |-> edge_cluster.members[i].member_index]

\* What one call of validate_tier0 does, given the cache and the backend it
\* sees: how it ends, the backend calls it issues and the cache it leaves.
ValidateTier0(dict, routers, clusters, tier0_uuid) ==
    LET lrouter == routers[tier0_uuid]
        edge_cluster_uuid == lrouter.edge_cluster_id
        getRouter == Call("get_logical_router", <<tier0_uuid>>,
                          IF lrouter.found THEN "ok" ELSE "ResourceNotFound")
        getCluster == Call("get_edge_cluster", <<edge_cluster_uuid>>,
                           IF clusters[edge_cluster_uuid].found
                           THEN "ok" ELSE "ResourceNotFound")
    IN  IF CacheHit(dict, tier0_uuid)
        THEN [outcome |-> "return", calls |-> <<>>, dict |-> dict]
        ELSE IF ~lrouter.found
        THEN \* ResourceNotFound is caught and becomes err_msg
             [outcome |-> "InvalidInput", calls |-> <<getRouter>>, dict |-> dict]
        ELSE IF edge_cluster_uuid = None
        THEN [outcome |-> "InvalidInput", calls |-> <<getRouter>>, dict |-> dict]
        ELSE IF ~clusters[edge_cluster_uuid].found
        THEN \* the failure of get_edge_cluster is not caught
             [outcome |-> "ResourceNotFound", calls |-> <<getRouter, getCluster>>,
              dict |-> dict]
        ELSE IF TooFewMembers(MemberIndexList(clusters[edge_cluster_uuid]))
        THEN [outcome |-> "InvalidInput", calls |-> <<getRouter, getCluster>>,
              dict |-> dict]
        ELSE [outcome |-> "return", calls |-> <<getRouter, getCluster>>,
              dict |-> [dict EXCEPT ![tier0_uuid] =
                          [cached |-> TRUE,
                           edge_cluster_uuid |-> edge_cluster_uuid,
                           member_index_list |->
                               MemberIndexList(clusters[edge_cluster_uuid])]]]

validate_tier0(tier0_uuid) ==
    LET r == ValidateTier0(tier0_groups_dict, lrouters, edge_clusters, tier0_uuid)
    IN  /\ tier0_groups_dict' = r.dict
        /\ op' = Done("validate_tier0", <<tier0_uuid>>, r.outcome, r.calls)
        /\ prev' = op
        /\ UNCHANGED threads
        /\ UNCHANGED <<backendVars, dhcpVars>>

(* ---------------------- the logical router ports ------------------------ *)
NoLsp == <<None, None>>
\* nsxlib.create_logical_router_port: the port the backend creates. A LINK
\* port's logical_port_id names a logical router port, a DOWNLINK port's a
\* logical switch port.
NewRouterPort(id, logical_router_id, display_name, resource_type, logical_port_id, address_groups, edge_cluster_member_index) ==
    [id |-> id,
     logical_router_id |-> logical_router_id,
     display_name |-> display_name,
     resource_type |-> resource_type,
     linked_logical_router_port_id |->
         IF resource_type = LROUTERPORT_LINK THEN logical_port_id.port ELSE 0,
     linked_logical_switch_port_id |->
         IF resource_type = LROUTERPORT_DOWNLINK THEN logical_port_id.lsp ELSE NoLsp,
     subnets |-> address_groups,
     edge_cluster_member_index |-> edge_cluster_member_index]

\* logical_port_id=None, a logical router port id, a logical switch port id
NoPortRef == [port |-> 0, lsp |-> NoLsp]
RouterPortRef(id) == [port |-> id, lsp |-> NoLsp]
SwitchPortRef(lsp) == [port |-> 0, lsp |-> lsp]

\* nsxlib.get_tier1_logical_router_link_port: the link ports of a tier1 router
\* (ResourceNotFound when there is none).
Tier1LinkPorts(ports, tier1_uuid) ==
    {p \in ports : p.logical_router_id = tier1_uuid
                     /\ p.resource_type = LROUTERPORT_LINK}

\* nsxlib.get_logical_router_port_by_ls_id: the router ports attached to a
\* logical switch (ResourceNotFound when there is none).
PortsByLsId(ports, ls_id) ==
    {p \in ports : p.resource_type = LROUTERPORT_DOWNLINK
                     /\ LsOfPort(p.linked_logical_switch_port_id) = ls_id}

\* nsxlib.delete_logical_router_port
DeletePort(ports, id) == {p \in ports : p.id # id}

\* nsxlib.update_logical_router_port(port_id, subnets=...)
UpdatePortSubnets(ports, id, subnets) ==
    {IF p.id = id THEN [p EXCEPT !.subnets = subnets] ELSE p : p \in ports}

\* A sample that takes what there is when edge_members is shorter than k.
SamplesAtMost(edge_members, k) ==
    LET n == IF Len(edge_members) < k THEN Len(edge_members) ELSE k
    IN  {[j \in 1..n |-> edge_members[f[j]]] :
            f \in {g \in [1..n -> DOMAIN edge_members] :
                      \A a, b \in 1..n : a # b => g[a] # g[b]}}
\* random.sample(edge_members, k): the lists of k distinct elements of
\* edge_members (none when edge_members is shorter: ValueError).
Samples(edge_members, k) ==
    {[j \in 1..k |-> edge_members[f[j]]] :
        f \in {g \in [1..k -> DOMAIN edge_members] :
                  \A a, b \in 1..k : a # b => g[a] # g[b]}}

\* The lists a caller may pass as edge_members.
EdgeMemberLists == {MemberIndexList([members |-> Members(n)]) : n \in 0..MaxMembers}
\* Which of an operation's changing backend calls fails (0: none does).
Faults == 0..2

\* An administrator deletes a logical router port at the backend.
DeleteRouterPort(id) ==
    /\ \E p \in lrouter_ports : p.id = id
    /\ lrouter_ports' = DeletePort(lrouter_ports, id)
    /\ op' = Done("backend_change", <<id>>, "return", <<>>)
    /\ prev' = op
    /\ UNCHANGED threads
    /\ UNCHANGED <<lrouters, edge_clusters, next_port_id, tier0_groups_dict>>
    /\ UNCHANGED dhcpVars

(* ------------------------ add_router_link_port -------------------------- *)
Tier0LinkPortCall(tier0_uuid, ret) ==
    Call("create_logical_router_port",
         <<tier0_uuid, TIER0_ROUTER_LINK_PORT_NAME, LROUTERPORT_LINK, NoPortRef,
           None, <<>> >>, ret)

Tier1LinkPortCallUnlinked(tier1_uuid, linked_logical_port_id, edge_cluster_member_index, ret) ==
    Call("create_logical_router_port",
         <<tier1_uuid, TIER1_ROUTER_LINK_PORT_NAME, LROUTERPORT_LINK,
           NoPortRef, None, edge_cluster_member_index>>, ret)
Tier1LinkPortCall(tier1_uuid, linked_logical_port_id, edge_cluster_member_index, ret) ==
    Call("create_logical_router_port",
         <<tier1_uuid, TIER1_ROUTER_LINK_PORT_NAME, LROUTERPORT_LINK,
           RouterPortRef(linked_logical_port_id), None,
           edge_cluster_member_index>>, ret)

add_router_link_port(tier1_uuid, tier0_uuid, edge_members, fault) ==
    LET args == <<tier1_uuid, tier0_uuid, edge_members>>
        linked_logical_port_id == next_port_id
        tier0_link_port ==
            NewRouterPort(linked_logical_port_id, tier0_uuid,
                          TIER0_ROUTER_LINK_PORT_NAME, LROUTERPORT_LINK,
                          NoPortRef, None, <<>>)
    IN  /\ next_port_id <= MaxPortId
        /\ UNCHANGED <<prev, threads>>
        /\ UNCHANGED <<lrouters, edge_clusters, tier0_groups_dict, dhcpVars>>
        /\ IF fault = 1
           THEN \* the tier0 create fails: nothing was created
                /\ op' = Done("add_router_link_port", args, "ManagerError",
                              <<Tier0LinkPortCall(tier0_uuid, "ManagerError")>>)
                /\ UNCHANGED <<lrouter_ports, next_port_id>>
           ELSE IF Samples(edge_members, MIN_EDGE_NODE_NUM) = {}
           THEN \* random.sample raises ValueError after the tier0 create
                /\ op' = Done("add_router_link_port", args, "ValueError",
                              <<Tier0LinkPortCall(tier0_uuid, "ok")>>)
                /\ lrouter_ports' = lrouter_ports \cup {tier0_link_port}
                /\ next_port_id' = next_port_id + 1
           ELSE \E edge_cluster_member_index \in
                        Samples(edge_members, MIN_EDGE_NODE_NUM) :
                IF fault = 2
                THEN \* the tier1 create fails: the tier0 port stays
                     /\ op' = Done("add_router_link_port", args, "ManagerError",
                                   <<Tier0LinkPortCall(tier0_uuid, "ok"),
                                     Tier1LinkPortCall(tier1_uuid,
                                         linked_logical_port_id,
                                         edge_cluster_member_index,
                                         "ManagerError")>>)
                     /\ lrouter_ports' = lrouter_ports \cup {tier0_link_port}
                     /\ next_port_id' = next_port_id + 1
                ELSE /\ next_port_id + 1 <= MaxPortId
                     /\ op' = Done("add_router_link_port", args, "return",
                                   <<Tier0LinkPortCall(tier0_uuid, "ok"),
                                     Tier1LinkPortCall(tier1_uuid,
                                         linked_logical_port_id,
                                         edge_cluster_member_index, "ok")>>)
                     /\ lrouter_ports' = lrouter_ports \cup
                            {tier0_link_port,
                             NewRouterPort(next_port_id + 1, tier1_uuid,
                                 TIER1_ROUTER_LINK_PORT_NAME, LROUTERPORT_LINK,
                                 RouterPortRef(linked_logical_port_id), None,
                                 edge_cluster_member_index)}
                     /\ next_port_id' = next_port_id + 2

(* ----------------------- remove_router_link_port ------------------------ *)
GetTier1LinkPortCall(tier1_uuid, ret) ==
    Call("get_tier1_logical_router_link_port", <<tier1_uuid>>, ret)
DeletePortCall(id, ret) == Call("delete_logical_router_port", <<id>>, ret)

\* except nsx_exc.ResourceNotFound: LOG.warning(...); return
LinkPortNotFoundRaises(tier1_uuid) ==
    [outcome |-> "ResourceNotFound",
     calls |-> <<GetTier1LinkPortCall(tier1_uuid, "ResourceNotFound")>>]
LinkPortNotFound(tier1_uuid) ==
    [outcome |-> "return",
     calls |-> <<GetTier1LinkPortCall(tier1_uuid, "ResourceNotFound")>>]

\* The two deletes in the other order.
remove_router_link_port_tier0_first(tier1_uuid, tier0_uuid, fault) ==
    LET args == <<tier1_uuid, tier0_uuid>>
        found == Tier1LinkPorts(lrouter_ports, tier1_uuid)
    IN  /\ UNCHANGED <<prev, threads>>
        /\ UNCHANGED <<lrouters, edge_clusters, tier0_groups_dict, next_port_id, dhcpVars>>
        /\ IF found = {}
           THEN /\ op' = Done("remove_router_link_port", args,
                              LinkPortNotFound(tier1_uuid).outcome,
                              LinkPortNotFound(tier1_uuid).calls)
                /\ UNCHANGED lrouter_ports
           ELSE \E tier1_link_port \in found :
                LET tier1_link_port_id == tier1_link_port.id
                    tier0_link_port_id ==
                        tier1_link_port.linked_logical_router_port_id
                    get == GetTier1LinkPortCall(tier1_uuid, "ok")
                    afterTier1 == DeletePort(lrouter_ports, tier1_link_port_id)
                    tier0Ret ==
                        IF fault = 2 THEN "ManagerError"
                        ELSE IF \E p \in afterTier1 : p.id = tier0_link_port_id
                        THEN "ok" ELSE "ResourceNotFound"
                IN  IF fault = 1
                    THEN /\ op' = Done("remove_router_link_port", args,
                                       "ManagerError",
                                       <<get, DeletePortCall(tier1_link_port_id,
                                                             "ManagerError")>>)
                         /\ UNCHANGED lrouter_ports
                    ELSE /\ op' = Done("remove_router_link_port", args,
                                       IF tier0Ret = "ok" THEN "return" ELSE tier0Ret,
                                       <<get, DeletePortCall(tier0_link_port_id, tier0Ret),
                                         DeletePortCall(tier1_link_port_id, "ok")>>)
                         /\ lrouter_ports' =
                                IF tier0Ret = "ok"
                                THEN DeletePort(afterTier1, tier0_link_port_id)
                                ELSE afterTier1
remove_router_link_port(tier1_uuid, tier0_uuid, fault) ==
    LET args == <<tier1_uuid, tier0_uuid>>
        found == Tier1LinkPorts(lrouter_ports, tier1_uuid)
    IN  /\ UNCHANGED <<prev, threads>>
        /\ UNCHANGED <<lrouters, edge_clusters, tier0_groups_dict, next_port_id, dhcpVars>>
        /\ IF found = {}
           THEN /\ op' = Done("remove_router_link_port", args,
                              LinkPortNotFound(tier1_uuid).outcome,
                              LinkPortNotFound(tier1_uuid).calls)
                /\ UNCHANGED lrouter_ports
           ELSE \E tier1_link_port \in found :
                LET tier1_link_port_id == tier1_link_port.id
                    tier0_link_port_id ==
                        tier1_link_port.linked_logical_router_port_id
                    get == GetTier1LinkPortCall(tier1_uuid, "ok")
                    afterTier1 == DeletePort(lrouter_ports, tier1_link_port_id)
                    tier0Ret ==
                        IF fault = 2 THEN "ManagerError"
                        ELSE IF \E p \in afterTier1 : p.id = tier0_link_port_id
                        THEN "ok" ELSE "ResourceNotFound"
                IN  IF fault = 1
                    THEN /\ op' = Done("remove_router_link_port", args,
                                       "ManagerError",
                                       <<get, DeletePortCall(tier1_link_port_id,
                                                             "ManagerError")>>)
                         /\ UNCHANGED lrouter_ports
                    ELSE /\ op' = Done("remove_router_link_port", args,
                                       IF tier0Ret = "ok" THEN "return" ELSE tier0Ret,
                                       <<get, DeletePortCall(tier1_link_port_id, "ok"),
                                         DeletePortCall(tier0_link_port_id, tier0Ret)>>)
                         /\ lrouter_ports' =
                                IF tier0Ret = "ok"
                                THEN DeletePort(afterTier1, tier0_link_port_id)
                                ELSE afterTier1

(* --------------- create_logical_router_intf_port_by_ls_id --------------- *)
GetPortByLsIdCall(ls_id, ret) ==
    Call("get_logical_router_port_by_ls_id", <<ls_id>>, ret)

\* The backend call the function issues, given what the lookup found (the id
\* of the port on the logical switch, 0 when there is none).
IntfPortCallAlwaysCreate(found_id, logical_router_id, logical_switch_port_id, address_groups, ret) ==
    Call("create_logical_router_port",
         <<logical_router_id, ROUTER_INTF_PORT_NAME, LROUTERPORT_DOWNLINK,
           SwitchPortRef(logical_switch_port_id), address_groups, <<>> >>, ret)
IntfPortCall(found_id, logical_router_id, logical_switch_port_id, address_groups, ret) ==
    IF found_id = 0
    THEN Call("create_logical_router_port",
              <<logical_router_id, ROUTER_INTF_PORT_NAME, LROUTERPORT_DOWNLINK,
                SwitchPortRef(logical_switch_port_id), address_groups, <<>> >>, ret)
    ELSE Call("update_logical_router_port", <<found_id, address_groups>>, ret)

\* What a backend call that succeeded did to the logical router ports.
ApplyPortCall(ports, id, call) ==
    IF call.ret # "ok" THEN ports
    ELSE IF call.fn = "create_logical_router_port"
    THEN ports \cup {NewRouterPort(id, call.args[1], call.args[2], call.args[3],
                                   call.args[4], call.args[5], call.args[6])}
    ELSE IF call.fn = "update_logical_router_port"
    THEN UpdatePortSubnets(ports, call.args[1], call.args[2])
    ELSE ports

create_logical_router_intf_port_by_ls_id(logical_router_id, ls_id, logical_switch_port_id, address_groups) ==
    LET args == <<logical_router_id, ls_id, logical_switch_port_id, address_groups>>
        found == PortsByLsId(lrouter_ports, ls_id)
        ret == "ok"
    IN  /\ prev' = op
        /\ UNCHANGED threads
        /\ UNCHANGED <<lrouters, edge_clusters, tier0_groups_dict, dhcpVars>>
        /\ \E found_id \in IF found = {} THEN {0} ELSE {p.id : p \in found} :
             LET call == IntfPortCall(found_id, logical_router_id,
                                      logical_switch_port_id, address_groups, ret)
                 created == call.fn = "create_logical_router_port"
             IN  /\ created => next_port_id <= MaxPortId
                 /\ op' = Done("create_logical_router_intf_port_by_ls_id", args,
                               IF ret = "ok" THEN "return" ELSE ret,
                               <<GetPortByLsIdCall(ls_id,
                                    IF found_id = 0 THEN "ResourceNotFound" ELSE "ok"),
                                 call>>)
                 /\ lrouter_ports' = ApplyPortCall(lrouter_ports, next_port_id, call)
                 /\ next_port_id' =
                        IF created /\ ret = "ok" THEN next_port_id + 1
                        ELSE next_port_id

NextLinkPort ==
    \/ \E t1 \in Tier1Ids, t0 \in Tier0Ids, m \in EdgeMemberLists, f \in Faults :
         add_router_link_port(t1, t0, m, f)
    \/ \E t1 \in Tier1Ids, t0 \in Tier0Ids, f \in Faults :
         remove_router_link_port(t1, t0, f)

SpecLinkPort == Init /\ [][NextLinkPort]_vars

NextIntfPort ==
    \/ \E r \in Tier1Ids, lsp \in LspIds, ag \in AddressGroups :
         create_logical_router_intf_port_by_ls_id(r, LsOfPort(lsp), lsp, ag)
    \/ \E id \in 1..MaxPortId : DeleteRouterPort(id)

SpecIntfPort == Init /\ [][NextIntfPort]_vars

NextValidate ==
    \/ \E t \in Tier0Ids, v \in LRouterValues : SetLogicalRouter(t, v)
    \/ \E c \in ClusterIds, v \in ClusterValues : SetEdgeCluster(c, v)
    \/ \E t \in Tier0Ids : validate_tier0(t)

SpecValidate == Init /\ [][NextValidate]_vars

(* ------------------- native DHCP: subnets and service ------------------- *)
\* The network has a DHCP-enabled subnet other than `subnet_id`.
NoDhcpSubnetCheck(subs, subnet_id) == FALSE
HasOtherDhcpSubnet(subs, subnet_id) ==
    \E s \in SubnetIds \ {subnet_id} : subs[s].exists /\ subs[s].enable_dhcp

DhcpPortId == "dhcp-port"

\* The network's DHCP-owned port is created: a logical DHCP server is created
\* for it and the service binding is persisted.
EnableDhcp ==
    /\ dhcp_port' = TRUE
    /\ IF conf.native_dhcp_metadata
       THEN /\ next_nsx_id <= MaxNsxId
            /\ dhcp_servers' = dhcp_servers \cup {next_nsx_id}
            /\ nsx_service_binding' =
                   [bound |-> TRUE, port_id |-> DhcpPortId,
                    nsx_service_id |-> next_nsx_id]
            /\ next_nsx_id' = next_nsx_id + 1
       ELSE UNCHANGED <<dhcp_servers, nsx_service_binding, next_nsx_id>>
    /\ UNCHANGED <<nsx_dhcp_bindings, dhcp_static_bindings>>
\* The backend calls of EnableDhcp.
EnableDhcpCalls ==
    IF conf.native_dhcp_metadata
    THEN <<Call("create_dhcp_server", <<NetworkId>>, "ok")>>
    ELSE <<>>

\* A teardown that leaves the rows of the compute bindings where they are.
DisableDhcpKeepsRows ==
    /\ dhcp_port' = FALSE
    /\ dhcp_servers' = dhcp_servers \ {nsx_service_binding.nsx_service_id}
    /\ nsx_service_binding' = NoServiceBinding
    /\ dhcp_static_bindings' =
           {b \in dhcp_static_bindings :
               b.server_id # nsx_service_binding.nsx_service_id}
    /\ UNCHANGED <<nsx_dhcp_bindings, next_nsx_id>>
\* The DHCP-owned port is deleted: the server and the service binding are torn
\* down, and with them the compute bindings under that server.
DisableDhcp ==
    /\ dhcp_port' = FALSE
    /\ dhcp_servers' = dhcp_servers \ {nsx_service_binding.nsx_service_id}
    /\ nsx_service_binding' = NoServiceBinding
    /\ nsx_dhcp_bindings' =
           {r \in nsx_dhcp_bindings :
               r.nsx_service_id # nsx_service_binding.nsx_service_id}
    /\ dhcp_static_bindings' =
           {b \in dhcp_static_bindings :
               b.server_id # nsx_service_binding.nsx_service_id}
    /\ UNCHANGED next_nsx_id
\* The backend calls of DisableDhcp.
DisableDhcpCalls ==
    IF nsx_service_binding.bound
    THEN <<Call("delete_dhcp_server", <<nsx_service_binding.nsx_service_id>>, "ok")>>
    ELSE <<>>

create_subnet(subnet_id, enable_dhcp) ==
    /\ neutron_network
    /\ ~neutron_subnets[subnet_id].exists
    /\ UNCHANGED <<routerVars, neutron_ports, conf, neutron_network, prev, threads>>
    /\ IF enable_dhcp /\ HasOtherDhcpSubnet(neutron_subnets, subnet_id)
       THEN /\ op' = Done("create_subnet", <<subnet_id, enable_dhcp>>,
                          "InvalidInput", <<>>)
            /\ UNCHANGED <<neutron_subnets, nsx_service_binding, nsx_dhcp_bindings,
                           dhcp_servers, dhcp_static_bindings, next_nsx_id,
                           dhcp_port>>
       ELSE /\ neutron_subnets' =
                   [neutron_subnets EXCEPT ![subnet_id] =
                       [exists |-> TRUE, enable_dhcp |-> enable_dhcp]]
            /\ IF enable_dhcp
               THEN /\ EnableDhcp
                    /\ op' = Done("create_subnet", <<subnet_id, enable_dhcp>>,
                                  "return", EnableDhcpCalls)
               ELSE /\ op' = Done("create_subnet", <<subnet_id, enable_dhcp>>,
                                  "return", <<>>)
                    /\ UNCHANGED <<nsx_service_binding, nsx_dhcp_bindings,
                                   dhcp_servers, dhcp_static_bindings, next_nsx_id,
                                   dhcp_port>>

update_subnet(subnet_id, enable_dhcp) ==
    LET was == neutron_subnets[subnet_id].enable_dhcp
        args == <<subnet_id, enable_dhcp>>
    IN  /\ neutron_subnets[subnet_id].exists
        /\ UNCHANGED <<routerVars, neutron_ports, conf, neutron_network, prev, threads>>
        /\ IF enable_dhcp /\ ~was /\ HasOtherDhcpSubnet(neutron_subnets, subnet_id)
           THEN /\ op' = Done("update_subnet", args, "InvalidInput", <<>>)
                /\ UNCHANGED <<neutron_subnets, nsx_service_binding,
                               nsx_dhcp_bindings, dhcp_servers,
                               dhcp_static_bindings, next_nsx_id, dhcp_port>>
           ELSE /\ neutron_subnets' =
                       [neutron_subnets EXCEPT ![subnet_id].enable_dhcp = enable_dhcp]
                /\ IF enable_dhcp /\ ~was
                   THEN /\ EnableDhcp
                        /\ op' = Done("update_subnet", args, "return",
                                      EnableDhcpCalls)
                   ELSE IF was /\ ~enable_dhcp
                   THEN /\ DisableDhcp
                        /\ op' = Done("update_subnet", args, "return",
                                      DisableDhcpCalls)
                   ELSE /\ op' = Done("update_subnet", args, "return", <<>>)
                        /\ UNCHANGED <<nsx_service_binding, nsx_dhcp_bindings,
                                       dhcp_servers, dhcp_static_bindings,
                                       next_nsx_id, dhcp_port>>

\* A compute port holds a fixed IP of the subnet.
SubnetInUse(ports, subnet_id) ==
    \E p \in PortIds :
        /\ ports[p].exists
        /\ \E i \in DOMAIN ports[p].fixed_ips :
               ports[p].fixed_ips[i].subnet_id = subnet_id

\* The subnet is the one the network's DHCP service stands on.
IsDhcpSubnetNever(subs, subnet_id) == FALSE
IsDhcpSubnet(subs, subnet_id) == subs[subnet_id].enable_dhcp

\* A subnet is deleted; with the DHCP-enabled subnet goes the DHCP-owned port
\* and the DHCP service of the network.
delete_subnet(subnet_id) ==
    /\ neutron_subnets[subnet_id].exists
    /\ UNCHANGED <<routerVars, neutron_ports, conf, neutron_network, prev, threads>>
    /\ IF SubnetInUse(neutron_ports, subnet_id)
       THEN /\ op' = Done("delete_subnet", <<subnet_id>>, "SubnetInUse", <<>>)
            /\ UNCHANGED <<neutron_subnets, nsx_service_binding, nsx_dhcp_bindings,
                           dhcp_servers, dhcp_static_bindings, next_nsx_id,
                           dhcp_port>>
       ELSE /\ neutron_subnets' = [neutron_subnets EXCEPT ![subnet_id] = NoSubnet]
            /\ IF IsDhcpSubnet(neutron_subnets, subnet_id)
               THEN /\ DisableDhcp
                    /\ op' = Done("delete_subnet", <<subnet_id>>, "return",
                                  DisableDhcpCalls)
               ELSE /\ op' = Done("delete_subnet", <<subnet_id>>, "return", <<>>)
                    /\ UNCHANGED <<nsx_service_binding, nsx_dhcp_bindings,
                                   dhcp_servers, dhcp_static_bindings, next_nsx_id,
                                   dhcp_port>>

\* The network is created: no subnet, no DHCP-owned port. With native metadata
\* a logical port is attached to the metadata proxy.
create_network ==
    /\ ~neutron_network
    /\ neutron_network' = TRUE
    /\ op' = Done("create_network", <<NetworkId>>, "return",
                  IF conf.native_dhcp_metadata
                  THEN <<Call("create_logical_port",
                              <<NetworkId, conf.metadata_proxy_uuid>>, "ok")>>
                  ELSE <<>>)
    /\ UNCHANGED <<routerVars, neutron_subnets, neutron_ports, nsx_service_binding,
                   nsx_dhcp_bindings, dhcp_servers, dhcp_static_bindings,
                   next_nsx_id, conf, dhcp_port, prev, threads>>

\* The network is deleted, and its subnets and its DHCP-owned port with it.
delete_network ==
    /\ neutron_network
    /\ UNCHANGED <<routerVars, neutron_ports, conf, prev, threads>>
    /\ IF \E p \in PortIds : neutron_ports[p].exists
       THEN /\ op' = Done("delete_network", <<NetworkId>>, "NetworkInUse", <<>>)
            /\ UNCHANGED <<neutron_network, neutron_subnets, nsx_service_binding,
                           nsx_dhcp_bindings, dhcp_servers, dhcp_static_bindings,
                           next_nsx_id, dhcp_port>>
       ELSE /\ neutron_network' = FALSE
            /\ neutron_subnets' = [s \in SubnetIds |-> NoSubnet]
            /\ DisableDhcp
            /\ op' = Done("delete_network", <<NetworkId>>, "return",
                          DisableDhcpCalls)

\* The network's DHCP-owned port is deleted while its subnet stays as it is.
delete_dhcp_port ==
    /\ dhcp_port
    /\ DisableDhcp
    /\ op' = Done("delete_port", <<DhcpPortId>>, "return", DisableDhcpCalls)
    /\ UNCHANGED <<routerVars, neutron_subnets, neutron_ports, conf,
                   neutron_network, prev, threads>>

(* -------------------- native DHCP: compute ports ------------------------ *)
\* ip.replace('.', '-')
ReplaceDots(ip) == [i \in DOMAIN ip |-> IF ip[i] = "." THEN "-" ELSE ip[i]]

\* 'host-%s' % ip.replace('.', '-')
HostNameKeepsDots(ip) == <<"h", "o", "s", "t", "-">> \o ip
HostName(ip) == <<"h", "o", "s", "t", "-">> \o ReplaceDots(ip)

\* {'option121': {'static_routes': [{'network': <metadata route>, 'next_hop': ip}]}}
Option121(ip) ==
    [option121 |->
        [static_routes |-> <<[network |-> NATIVE_METADATA_ROUTE, next_hop |-> ip]>>]]
NoOptions == [option121 |-> [static_routes |-> <<>>]]

\* create_binding(server_id, mac, ip, hostname, lease_time, options)
CreateBindingCallNoServer(server_id, mac, ip) ==
    Call("create_binding",
         <<0, mac, ip, HostName(ip), DHCP_LEASE_TIME, Option121(ip)>>, "ok")
CreateBindingCall(server_id, mac, ip) ==
    Call("create_binding",
         <<server_id, mac, ip, HostName(ip), DHCP_LEASE_TIME, Option121(ip)>>, "ok")

\* The keyword arguments of update_binding for a binding that held
\* binding_ip: the MAC and the IP as they are now, and the host name and the
\* options when the IP is another.
UpdateBindingDataChangedOnly(mac, ip, binding_ip) ==
    IF ip # binding_ip
    THEN [keys |-> {"mac_address", "ip_address", "host_name", "options"},
          mac_address |-> mac, ip_address |-> ip,
          host_name |-> HostName(ip), options |-> Option121(ip)]
    ELSE [keys |-> {"mac_address"},
          mac_address |-> mac, ip_address |-> <<>>,
          host_name |-> <<>>, options |-> NoOptions]
UpdateBindingData(mac, ip, binding_ip) ==
    IF ip # binding_ip
    THEN [keys |-> {"mac_address", "ip_address", "host_name", "options"},
          mac_address |-> mac, ip_address |-> ip,
          host_name |-> HostName(ip), options |-> Option121(ip)]
    ELSE [keys |-> {"mac_address", "ip_address"},
          mac_address |-> mac, ip_address |-> ip,
          host_name |-> <<>>, options |-> NoOptions]

UpdateBindingCall(row, mac, ip) ==
    Call("update_binding",
         <<row.nsx_service_id, row.nsx_binding_id,
           UpdateBindingData(mac, ip, row.ip_address)>>, "ok")
DeleteBindingCallNoBindingId(row) ==
    Call("delete_binding", <<row.nsx_service_id, 0>>, "ok")
DeleteBindingCall(row) ==
    Call("delete_binding", <<row.nsx_service_id, row.nsx_binding_id>>, "ok")

\* The fixed IPs among fixed_ips that get a DHCP binding: those in a
\* DHCP-enabled subnet of a network with a DHCP service.
FirstDhcpFixedIp(subs, service, fixed_ips) ==
    LET InDhcpSubnet(f) ==
            /\ service.bound
            /\ subs[f.subnet_id].exists
            /\ subs[f.subnet_id].enable_dhcp
        ips == SelectSeq(fixed_ips, InDhcpSubnet)
    IN  IF ips = <<>> THEN <<>> ELSE <<ips[1]>>
DhcpFixedIps(subs, service, fixed_ips) ==
    LET InDhcpSubnet(f) ==
            /\ service.bound
            /\ subs[f.subnet_id].exists
            /\ subs[f.subnet_id].enable_dhcp
    IN  SelectSeq(fixed_ips, InDhcpSubnet)

\* The DhcpBinding row and the backend's static binding of a new binding.
BindingRow(port_id, ip, server_id, binding_id) ==
    [port_id |-> port_id, ip_address |-> ip,
     nsx_service_id |-> server_id, nsx_binding_id |-> binding_id]
StaticBinding(server_id, binding_id, mac, ip) ==
    [server_id |-> server_id, id |-> binding_id, mac_address |-> mac,
     ip_address |-> ip, host_name |-> HostName(ip),
     options |-> Option121(ip)]

\* What update_binding does to a static binding of the backend.
UpdatedStaticBinding(b, data) ==
    [b EXCEPT !.mac_address =
                  IF "mac_address" \in data.keys THEN data.mac_address ELSE @,
              !.ip_address =
                  IF "ip_address" \in data.keys THEN data.ip_address ELSE @,
              !.host_name =
                  IF "host_name" \in data.keys THEN data.host_name ELSE @,
              !.options =
                  IF "options" \in data.keys THEN data.options ELSE @]

SubnetsExist(fixed_ips) ==
    \A i \in DOMAIN fixed_ips : neutron_subnets[fixed_ips[i].subnet_id].exists

\* A compute port is created: one binding for each of its fixed IPs in a
\* DHCP-enabled subnet.
create_port(port_id, mac, fixed_ips, name) ==
    LET ips == DhcpFixedIps(neutron_subnets, nsx_service_binding, fixed_ips)
        server_id == nsx_service_binding.nsx_service_id
        BindingId(i) == next_nsx_id + i - 1
    IN  /\ ~neutron_ports[port_id].exists
        /\ SubnetsExist(fixed_ips)
        /\ next_nsx_id + Len(ips) - 1 <= MaxNsxId
        /\ neutron_ports' =
               [neutron_ports EXCEPT ![port_id] =
                   [exists |-> TRUE, mac_address |-> mac,
                    fixed_ips |-> fixed_ips, name |-> name]]
        /\ nsx_dhcp_bindings' = nsx_dhcp_bindings \cup
               {BindingRow(port_id, ips[i].ip_address, server_id, BindingId(i)) :
                   i \in DOMAIN ips}
        /\ dhcp_static_bindings' = dhcp_static_bindings \cup
               {StaticBinding(server_id, BindingId(i), mac, ips[i].ip_address) :
                   i \in DOMAIN ips}
        /\ next_nsx_id' = next_nsx_id + Len(ips)
        /\ op' = Done("create_port", <<port_id, mac, fixed_ips, name>>, "return",
                      [i \in DOMAIN ips |->
                          CreateBindingCall(server_id, mac, ips[i].ip_address)])
        /\ UNCHANGED <<routerVars, neutron_subnets, nsx_service_binding,
                       dhcp_servers, conf, neutron_network, dhcp_port, prev, threads>>

\* The rows of a port, in the order of its fixed IPs.
PortBindingRows(rows, port_id, fixed_ips) ==
    LET HasRow(f) ==
            \E r \in rows : r.port_id = port_id /\ r.ip_address = f.ip_address
        bound == SelectSeq(fixed_ips, HasRow)
    IN  [i \in DOMAIN bound |->
            CHOOSE r \in rows :
                r.port_id = port_id /\ r.ip_address = bound[i].ip_address]

\* The rows of a port that hold none of its fixed IPs as they are now: the
\* rows an update in flight, which wrote the port, has yet to follow up.
StaleRows(rows, port_id, fixed_ips) ==
    {r \in rows :
        /\ r.port_id = port_id
        /\ \A i \in DOMAIN fixed_ips : fixed_ips[i].ip_address # r.ip_address}
\* Rows in the order of the ids of their bindings.
RECURSIVE RowsById(_)
RowsById(rows) ==
    IF rows = {} THEN <<>>
    ELSE LET first == CHOOSE r \in rows :
                          \A q \in rows : r.nsx_binding_id <= q.nsx_binding_id
         IN  <<first>> \o RowsById(rows \ {first})

\* A compute port is deleted: each of its bindings is deleted at the backend
\* by the ids its row holds, and the row is removed.
delete_port(port_id) ==
    LET fixed_ips == neutron_ports[port_id].fixed_ips
        rows == PortBindingRows(nsx_dhcp_bindings, port_id, fixed_ips)
                \o RowsById(StaleRows(nsx_dhcp_bindings, port_id, fixed_ips))
    IN  /\ neutron_ports[port_id].exists
        /\ neutron_ports' = [neutron_ports EXCEPT ![port_id] = NoPort]
        /\ nsx_dhcp_bindings' =
               {r \in nsx_dhcp_bindings : r.port_id # port_id}
        /\ dhcp_static_bindings' =
               {b \in dhcp_static_bindings :
                   ~\E i \in DOMAIN rows :
                       /\ rows[i].nsx_service_id = b.server_id
                       /\ rows[i].nsx_binding_id = b.id}
        /\ op' = Done("delete_port", <<port_id>>, "return",
                      [i \in DOMAIN rows |-> DeleteBindingCall(rows[i])])
        /\ UNCHANGED <<routerVars, neutron_subnets, nsx_service_binding,
                       dhcp_servers, next_nsx_id, conf, neutron_network,
                       dhcp_port, prev, threads>>

\* The update gives the port another MAC.
MacChangedOrNot(old_port, mac) == TRUE
MacChanged(old_port, mac) == mac # old_port.mac_address

SubnetSeq(fixed_ips) == [i \in DOMAIN fixed_ips |-> fixed_ips[i].subnet_id]

\* What an update of its port does to one DhcpBinding row: the row's IP was
\* lost and is replaced in place ("update", with the IP that replaces it) or
\* just lost ("delete"), or it stays and the MAC changed ("update") or not
\* ("keep").
RowChange(row, ips_to_add, ips_to_delete, in_place, mac_changed) ==
    LET lost == {i \in DOMAIN ips_to_delete :
                    ips_to_delete[i].ip_address = row.ip_address}
    IN  IF lost # {}
        THEN IF in_place
             THEN [row |-> row, kind |-> "update",
                   ip |-> ips_to_add[CHOOSE i \in lost : TRUE].ip_address]
             ELSE [row |-> row, kind |-> "delete", ip |-> row.ip_address]
        ELSE [row |-> row, kind |-> IF mac_changed THEN "update" ELSE "keep",
              ip |-> row.ip_address]

\* The backend call a row's change takes.
RowChangeCall(c, mac) ==
    IF c.kind = "update" THEN UpdateBindingCall(c.row, mac, c.ip)
    ELSE DeleteBindingCall(c.row)

\* A compute port is updated. The fixed IPs it loses and gains are paired when
\* they lie in the same subnets (an IP changed in place: the binding is
\* updated); otherwise the bindings of the lost IPs are deleted and the gained
\* IPs in a DHCP-enabled subnet get new bindings. A binding whose IP stays is
\* updated when the MAC changed, and left alone otherwise.
update_port(port_id, mac, fixed_ips, name) ==
    LET old == neutron_ports[port_id]
        NotInOld(f) == \A i \in DOMAIN old.fixed_ips : old.fixed_ips[i] # f
        NotInNew(f) == \A i \in DOMAIN fixed_ips : fixed_ips[i] # f
        server_id == nsx_service_binding.nsx_service_id
        BindingId(i) == next_nsx_id + i - 1
    IN  /\ old.exists
        /\ SubnetsExist(fixed_ips)
        /\ \E ips_to_add \in {SelectSeq(fixed_ips, NotInOld)},
              ips_to_delete \in {SelectSeq(old.fixed_ips, NotInNew)},
              rows \in {PortBindingRows(nsx_dhcp_bindings, port_id, old.fixed_ips)} :
           \E changes \in
                 {[i \in DOMAIN rows |->
                     RowChange(rows[i], ips_to_add, ips_to_delete,
                               /\ ips_to_add # <<>>
                               /\ SubnetSeq(ips_to_add) = SubnetSeq(ips_to_delete),
                               MacChanged(old, mac))]} :
           LET Touched(c) == c.kind # "keep"
               touched == SelectSeq(changes, Touched)
               \* a gained IP that took over the binding of a lost one
               Gained(f) ==
                   \A i \in DOMAIN changes :
                       changes[i].kind = "update" => changes[i].ip # f.ip_address
           IN
           \E gained \in
                 {SelectSeq(DhcpFixedIps(neutron_subnets, nsx_service_binding,
                                         ips_to_add), Gained)} :
           /\ next_nsx_id + Len(gained) - 1 <= MaxNsxId
           /\ neutron_ports' =
                  [neutron_ports EXCEPT ![port_id] =
                      [exists |-> TRUE, mac_address |-> mac,
                       fixed_ips |-> fixed_ips, name |-> name]]
           /\ nsx_dhcp_bindings' =
                  {r \in nsx_dhcp_bindings : r.port_id # port_id}
                  \cup {[changes[i].row EXCEPT !.ip_address = changes[i].ip] :
                           i \in {j \in DOMAIN changes : changes[j].kind # "delete"}}
                  \cup {BindingRow(port_id, gained[i].ip_address, server_id,
                                   BindingId(i)) : i \in DOMAIN gained}
           /\ dhcp_static_bindings' =
                  {b \in dhcp_static_bindings :
                      \A i \in DOMAIN changes :
                          ~(/\ changes[i].row.nsx_service_id = b.server_id
                            /\ changes[i].row.nsx_binding_id = b.id
                            /\ changes[i].kind # "keep")}
                  \cup {UpdatedStaticBinding(
                            CHOOSE b \in dhcp_static_bindings :
                                /\ changes[i].row.nsx_service_id = b.server_id
                                /\ changes[i].row.nsx_binding_id = b.id,
                            UpdateBindingData(mac, changes[i].ip,
                                              changes[i].row.ip_address)) :
                           i \in {j \in DOMAIN changes : changes[j].kind = "update"}}
                  \cup {StaticBinding(server_id, BindingId(i), mac,
                                      gained[i].ip_address) : i \in DOMAIN gained}
           /\ next_nsx_id' = next_nsx_id + Len(gained)
           /\ op' = DoneUpdate(
                         "update_port", <<port_id, mac, fixed_ips, name>>, "return",
                         [i \in DOMAIN touched |-> RowChangeCall(touched[i], mac)]
                         \o [i \in DOMAIN gained |->
                               CreateBindingCall(server_id, mac,
                                                 gained[i].ip_address)],
                         {a \in {"mac_address", "fixed_ips", "name"} :
                             \/ (a = "mac_address" /\ mac # old.mac_address)
                             \/ (a = "fixed_ips" /\ fixed_ips # old.fixed_ips)
                             \/ (a = "name" /\ name # old.name)})
           /\ UNCHANGED <<routerVars, neutron_subnets, nsx_service_binding,
                          dhcp_servers, conf, neutron_network, dhcp_port, prev, threads>>

NextDhcp ==
    \/ create_network
    \/ \E s \in SubnetIds, e \in BOOLEAN : create_subnet(s, e)
    \/ \E s \in SubnetIds, e \in BOOLEAN : update_subnet(s, e)
    \/ \E p \in SinglePortIds, m \in MacAddresses, f \in FixedIpLists, n \in PortNames :
         create_port(p, m, f, n)
    \/ \E p \in SinglePortIds, m \in MacAddresses, f \in FixedIpLists, n \in PortNames :
         update_port(p, m, f, n)
    \/ \E p \in SinglePortIds : delete_port(p)

SpecDhcp == InitNative /\ [][NextDhcp]_vars

\* The network, its subnets and its DHCP service.
NextDhcpService ==
    \/ create_network
    \/ delete_network
    \/ \E s \in SubnetIds, e \in BOOLEAN : create_subnet(s, e)
    \/ \E s \in SubnetIds, e \in BOOLEAN : update_subnet(s, e)
    \/ \E s \in SubnetIds : delete_subnet(s)
    \/ \E p \in SinglePortIds, m \in MacAddresses, f \in FixedIpLists, n \in PortNames :
         create_port(p, m, f, n)
    \/ \E p \in SinglePortIds : delete_port(p)

SpecDhcpService == InitNative /\ [][NextDhcpService]_vars

(* ------------------- native DHCP: the configuration --------------------- *)
ProfileUuids == {"", "prof1", "prof2"}
MetadataProxyUuids == {"", "md1"}

\* cfg.CONF.set_override(name, value) of a flag or of an identifier.
set_override(name, value) ==
    /\ conf[name] # value
    /\ conf' = [conf EXCEPT ![name] = value]
    /\ op' = Done("set_override", <<name>>, "return", <<>>)
    /\ UNCHANGED <<routerVars, neutron_subnets, neutron_ports, nsx_service_binding,
                   nsx_dhcp_bindings, dhcp_servers, dhcp_static_bindings,
                   next_nsx_id, neutron_network, dhcp_port, prev, threads>>

\* What is wrong with the options of native DHCP and metadata, if anything.
ConfErrorIgnoresAgent(options) ==
    IF options.dhcp_profile_uuid = "" \/ options.metadata_proxy_uuid = ""
    THEN "RequiredOptError"
    ELSE "return"
ConfError(options) ==
    IF options.dhcp_agent_notification THEN "NsxPluginException"
    ELSE IF options.dhcp_profile_uuid = "" \/ options.metadata_proxy_uuid = ""
    THEN "RequiredOptError"
    ELSE "return"

\* The plugin initialises native DHCP and metadata: the options are checked,
\* then the DHCP profile and the metadata proxy are looked up at the backend.
init_dhcp_metadata ==
    /\ op' = IF ~conf.native_dhcp_metadata
             THEN Done("init_dhcp_metadata", <<>>, "return", <<>>)
             ELSE Done("init_dhcp_metadata", <<>>, ConfError(conf),
                       IF ConfError(conf) = "return"
                       THEN <<Call("DhcpProfile.get", <<conf.dhcp_profile_uuid>>, "ok"),
                              Call("MetaDataProxy.get", <<conf.metadata_proxy_uuid>>,
                                   "ok")>>
                       ELSE <<>>)
    /\ UNCHANGED <<routerVars, dhcpVars, prev, threads>>

NextInit ==
    \/ \E name \in {"dhcp_agent_notification", "native_dhcp_metadata"},
          value \in BOOLEAN : set_override(name, value)
    \/ \E value \in ProfileUuids : set_override("dhcp_profile_uuid", value)
    \/ \E value \in MetadataProxyUuids : set_override("metadata_proxy_uuid", value)
    \/ init_dhcp_metadata

SpecInit == Init /\ [][NextInit]_vars

(* ---------------------- native DHCP: bulk resync ------------------------ *)
NsxVersions == {"1.0.0", "1.1.0"}
\* nsx_utils.is_nsx_version_1_1_0(nsx_version)
IsNsxVersion110(nsx_version) == nsx_version = "1.1.0"

\* kwargs['property']: absent, or dhcp_profile_uuid=<uuid>.
Properties == {None, "prof1", "prof2"}
\* not dhcp_profile_uuid
ProfileAlwaysDefined(property) == FALSE
ProfileNotDefined(property) == property = None

\* How add_dhcp_service_binding ends when the network has a row already: the
\* insert is refused, or the row is replaced.
ServiceBindingResults == {"DBDuplicateEntry", "ok"}

\* cfg.CONF after the three set_override calls.
ResyncKeepsConf(options, dhcp_profile_uuid) == options
ResyncConf(options, dhcp_profile_uuid) ==
    [options EXCEPT !.dhcp_agent_notification = FALSE,
                     !.native_dhcp_metadata = TRUE,
                     !.dhcp_profile_uuid = dhcp_profile_uuid]

\* The fixed IPs of a port the loop gets to: it breaks after the first IPv4
\* address.
ResyncAllFixedIps(fixed_ips) == fixed_ips
ResyncFixedIps(fixed_ips) ==
    IF fixed_ips = <<>> THEN <<>> ELSE <<fixed_ips[1]>>

\* port_bindings: the (port_id, mac, ip) of the compute ports, for the
\* addresses the loop gets to that lie in a DHCP-enabled subnet.
RECURSIVE PortBindings(_, _, _)
PortBindings(port_ids, ports, subs) ==
    IF port_ids = {} THEN <<>>
    ELSE LET p == CHOOSE x \in port_ids : TRUE
             InDhcpSubnet(f) == subs[f.subnet_id].enable_dhcp
             ips == IF ports[p].exists
                    THEN SelectSeq(ResyncFixedIps(ports[p].fixed_ips), InDhcpSubnet)
                    ELSE <<>>
         IN  [i \in DOMAIN ips |->
                 [port_id |-> p, mac |-> ports[p].mac_address,
                  ip |-> ips[i].ip_address]]
             \o PortBindings(port_ids \ {p}, ports, subs)

\* The bindings a run of n create_binding calls leaves at the backend when
\* call number `fault` fails (0: none fails): those of the calls before it.
CreatedBindingsRolledBack(n, fault) == IF fault = 0 THEN n ELSE 0
CreatedBindings(n, fault) == IF fault = 0 THEN n ELSE fault - 1

\* Resync DHCP bindings: for the DHCP-owned port a logical DHCP server is
\* created and bound to the network, and the bindings of the compute ports
\* are created in it.
nsx_update_dhcp_bindings(nsx_version, property, service_binding_result, fault) ==
    LET args == <<nsx_version, property>>
        server_id == next_nsx_id
        refused == nsx_service_binding.bound /\ service_binding_result # "ok"
        server_calls ==
            <<Call("create_dhcp_server", <<NetworkId, property>>, "ok"),
              Call("add_dhcp_service_binding", <<NetworkId, DhcpPortId, server_id>>,
                   IF refused THEN service_binding_result ELSE "ok")>>
    IN  \E bindings \in {PortBindings(PortIds, neutron_ports, neutron_subnets)} :
        LET BindingId(i) == next_nsx_id + i
            \* the create_binding calls that are issued, those that succeed
            issued == IF fault = 0 THEN Len(bindings) ELSE fault
            created == CreatedBindings(Len(bindings), fault)
        IN
        /\ UNCHANGED <<routerVars, neutron_subnets, neutron_ports, nsx_dhcp_bindings,
                       neutron_network, dhcp_port, prev, threads>>
        /\ fault <= Len(bindings)
        /\ IF ~IsNsxVersion110(nsx_version) \/ ProfileNotDefined(property)
           THEN /\ fault = 0
                /\ op' = Done("nsx_update_dhcp_bindings", args, "return", <<>>)
                /\ UNCHANGED <<conf, nsx_service_binding, dhcp_servers,
                               dhcp_static_bindings, next_nsx_id>>
           ELSE /\ conf' = ResyncConf(conf, property)
                /\ IF ~dhcp_port
                   THEN \* no server is known: no binding is created
                        /\ fault = 0
                        /\ op' = Done("nsx_update_dhcp_bindings", args, "return", <<>>)
                        /\ UNCHANGED <<nsx_service_binding, dhcp_servers,
                                       dhcp_static_bindings, next_nsx_id>>
                   ELSE IF refused
                   THEN /\ next_nsx_id <= MaxResyncNsxId
                        /\ fault = 0
                        /\ dhcp_servers' = dhcp_servers \cup {server_id}
                        /\ next_nsx_id' = next_nsx_id + 1
                        /\ op' = Done("nsx_update_dhcp_bindings", args,
                                      service_binding_result, server_calls)
                        /\ UNCHANGED <<nsx_service_binding, dhcp_static_bindings>>
                   ELSE /\ next_nsx_id + created <= MaxResyncNsxId
                        /\ service_binding_result = "ok"
                        /\ dhcp_servers' = dhcp_servers \cup {server_id}
                        /\ nsx_service_binding' =
                               [bound |-> TRUE, port_id |-> DhcpPortId,
                                nsx_service_id |-> server_id]
                        /\ dhcp_static_bindings' = dhcp_static_bindings \cup
                               {StaticBinding(server_id, BindingId(i),
                                              bindings[i].mac, bindings[i].ip) :
                                   i \in 1..created}
                        /\ next_nsx_id' = next_nsx_id + created + 1
                        /\ op' = Done("nsx_update_dhcp_bindings", args,
                                      IF fault = 0 THEN "return" ELSE "ManagerError",
                                      server_calls
                                      \o <<Call("update_logical_port",
                                                <<DhcpPortId, server_id>>, "ok")>>
                                      \o [i \in 1..issued |->
                                            [CreateBindingCall(server_id,
                                                               bindings[i].mac,
                                                               bindings[i].ip)
                                             EXCEPT !.ret = IF i = fault
                                                            THEN "ManagerError"
                                                            ELSE "ok"]])

\* Which create_binding call of a resync fails (0: none does).
BindingFaults == 0..Cardinality(PortIds)

\* The compute ports that are there at a resync have one name: resync does
\* not read it.
ResyncPortNames == {"abc"}
\* and one MAC address: resync passes it on as it is.
ResyncMacAddresses == {"11:22:33:44:55:66"}

NextResync ==
    \/ create_network
    \/ \E s \in SubnetIds, e \in BOOLEAN : create_subnet(s, e)
    \/ \E s \in SubnetIds, e \in BOOLEAN : update_subnet(s, e)
    \/ \E p \in SinglePortIds, m \in ResyncMacAddresses, f \in FixedIpLists, n \in ResyncPortNames :
         create_port(p, m, f, n)
    \/ \E p \in SinglePortIds : delete_port(p)
    \/ delete_dhcp_port
    \/ \E v \in NsxVersions, property \in Properties, r \in ServiceBindingResults :
         nsx_update_dhcp_bindings(v, property, r, 0)

SpecResync == Init /\ [][NextResync]_vars

(* ------------- calls in flight at the same time: the steps --------------- *)
\* create_logical_router_intf_port_by_ls_id, up to the answer of the lookup:
\* the caller holds the port the backend returned (0: ResourceNotFound).
get_logical_router_port_by_ls_id(th, logical_router_id, ls_id, logical_switch_port_id, address_groups) ==
    LET found == PortsByLsId(lrouter_ports, ls_id)
    IN  /\ threads[th].pc = "idle"
        /\ \E found_id \in IF found = {} THEN {0} ELSE {p.id : p \in found} :
             threads' = [threads EXCEPT ![th] =
                            [pc |-> "looked_up",
                             args |-> <<logical_router_id, ls_id,
                                        logical_switch_port_id, address_groups>>,
                             seen |-> found_id]]
        /\ UNCHANGED <<routerVars, dhcpVars, op, prev>>

\* create_logical_router_intf_port_by_ls_id, from the answer of the lookup on:
\* the port is created when the lookup found none, and updated otherwise.
create_or_update_logical_router_port(th) ==
    LET args == threads[th].args
        found_id == threads[th].seen
    IN  /\ threads[th].pc = "looked_up"
        /\ LET call == IntfPortCall(found_id, args[1], args[3], args[4], "ok")
               created == call.fn = "create_logical_router_port"
           IN  /\ created => next_port_id <= MaxRacePortId
               /\ op' = Done("create_logical_router_intf_port_by_ls_id", args, "return",
                             <<GetPortByLsIdCall(args[2],
                                  IF found_id = 0 THEN "ResourceNotFound" ELSE "ok"),
                               call>>)
               /\ lrouter_ports' = ApplyPortCall(lrouter_ports, next_port_id, call)
               /\ next_port_id' = IF created THEN next_port_id + 1 ELSE next_port_id
        /\ threads' = [threads EXCEPT ![th] = Idle]
        /\ UNCHANGED <<lrouters, edge_clusters, tier0_groups_dict, dhcpVars, prev>>

\* The callers in flight pass the same address groups.
RaceAddressGroups == {"ag1"}

NextIntfPortRace ==
    \/ \E th \in Threads, r \in Tier1Ids, lsp \in LspIds, ag \in RaceAddressGroups :
         get_logical_router_port_by_ls_id(th, r, LsOfPort(lsp), lsp, ag)
    \/ \E th \in Threads : create_or_update_logical_router_port(th)

SpecIntfPortRace == Init /\ [][NextIntfPortRace]_vars

(* ------------- validate_tier0 in flight at the same time ---------------- *)
\* A caller whose call has ended: how it ended and the backend calls it made.
Ended(args, outcome, calls) ==
    [pc |-> "ended", args |-> args, seen |-> [outcome |-> outcome, calls |-> calls]]

\* A store that adds the members to the entry that is there.
StoreEntryAppends(dict, tier0_uuid, edge_cluster_uuid, member_index_list) ==
    [dict EXCEPT ![tier0_uuid] =
        [cached |-> TRUE, edge_cluster_uuid |-> edge_cluster_uuid,
         member_index_list |-> @.member_index_list \o member_index_list]]
\* tier0_groups_dict[tier0_uuid] = {...}: the entry replaces what is there.
StoreEntry(dict, tier0_uuid, edge_cluster_uuid, member_index_list) ==
    [dict EXCEPT ![tier0_uuid] =
        [cached |-> TRUE, edge_cluster_uuid |-> edge_cluster_uuid,
         member_index_list |-> member_index_list]]

\* if tier0_uuid in tier0_groups_dict: return
validate_tier0_check(th, tier0_uuid) ==
    /\ threads[th].pc = "idle"
    /\ threads' = [threads EXCEPT ![th] =
          IF CacheHit(tier0_groups_dict, tier0_uuid)
          THEN Ended(<<tier0_uuid>>, "return", <<>>)
          ELSE [pc |-> "checked", args |-> <<tier0_uuid>>, seen |-> <<>>]]
    /\ UNCHANGED <<routerVars, dhcpVars, op, prev>>

\* nsxlib.get_logical_router and the reading of its edge_cluster_id
validate_tier0_get_logical_router(th) ==
    LET args == threads[th].args
        lrouter == lrouters[args[1]]
        getRouter == Call("get_logical_router", args,
                          IF lrouter.found THEN "ok" ELSE "ResourceNotFound")
    IN  /\ threads[th].pc = "checked"
        /\ threads' = [threads EXCEPT ![th] =
              IF ~lrouter.found \/ lrouter.edge_cluster_id = None
              THEN Ended(args, "InvalidInput", <<getRouter>>)
              ELSE [pc |-> "got_router", args |-> args,
                    seen |-> lrouter.edge_cluster_id]]
        /\ UNCHANGED <<routerVars, dhcpVars, op, prev>>

\* nsxlib.get_edge_cluster and the count of its members
validate_tier0_get_edge_cluster(th) ==
    LET args == threads[th].args
        edge_cluster_uuid == threads[th].seen
        edge_cluster == edge_clusters[edge_cluster_uuid]
        getRouter == Call("get_logical_router", args, "ok")
        getCluster == Call("get_edge_cluster", <<edge_cluster_uuid>>,
                           IF edge_cluster.found THEN "ok" ELSE "ResourceNotFound")
    IN  /\ threads[th].pc = "got_router"
        /\ threads' = [threads EXCEPT ![th] =
              IF ~edge_cluster.found
              THEN Ended(args, "ResourceNotFound", <<getRouter, getCluster>>)
              ELSE IF TooFewMembers(MemberIndexList(edge_cluster))
              THEN Ended(args, "InvalidInput", <<getRouter, getCluster>>)
              ELSE [pc |-> "got_cluster", args |-> args,
                    seen |-> [edge_cluster_uuid |-> edge_cluster_uuid,
                              member_index_list |-> MemberIndexList(edge_cluster)]]]
        /\ UNCHANGED <<routerVars, dhcpVars, op, prev>>

\* the assignment to tier0_groups_dict[tier0_uuid]
validate_tier0_store(th) ==
    LET args == threads[th].args
        seen == threads[th].seen
    IN  /\ threads[th].pc = "got_cluster"
        /\ tier0_groups_dict' = StoreEntry(tier0_groups_dict, args[1],
                                    seen.edge_cluster_uuid, seen.member_index_list)
        /\ threads' = [threads EXCEPT ![th] =
              Ended(args, "return",
                    <<Call("get_logical_router", args, "ok"),
                      Call("get_edge_cluster", <<seen.edge_cluster_uuid>>, "ok")>>)]
        /\ UNCHANGED <<backendVars, dhcpVars, op, prev>>

\* No call is in flight.
AllIdle == \A th \in Threads : threads[th].pc = "idle"
\* The callers have their results: they are ready for another call.
validate_tier0_join ==
    /\ \A th \in Threads : threads[th].pc = "ended"
    /\ threads' = [th \in Threads |-> Idle]
    /\ UNCHANGED <<routerVars, dhcpVars, op, prev>>

\* The tier0 router the callers in flight validate.
RaceTier0Ids == {"t0a"}

\* The backend changes between the calls, and not while one is in flight.
NextValidateRace ==
    \/ AllIdle /\ \E t \in RaceTier0Ids, v \in LRouterValues : SetLogicalRouter(t, v)
    \/ AllIdle /\ \E c \in ClusterIds, v \in ClusterValues : SetEdgeCluster(c, v)
    \/ \E th \in Threads, t \in RaceTier0Ids : validate_tier0_check(th, t)
    \/ \E th \in Threads : validate_tier0_get_logical_router(th)
    \/ \E th \in Threads : validate_tier0_get_edge_cluster(th)
    \/ \E th \in Threads : validate_tier0_store(th)
    \/ validate_tier0_join

SpecValidateRace == Init /\ [][NextValidateRace]_vars

(* ------------- resync with two compute ports and a failing call --------- *)
\* The fixed_ips lists of one address.
OneFixedIpLists == {f \in FixedIpLists : Len(f) = 1}

NextResyncFault ==
    \/ create_network
    \/ \E e \in BOOLEAN : create_subnet("s1", e)
    \/ \E p \in PortIds, m \in MacAddresses, f \in OneFixedIpLists, n \in ResyncPortNames :
         create_port(p, m, f, n)
    \/ \E v \in NsxVersions, property \in Properties, r \in ServiceBindingResults,
          f \in BindingFaults :
         nsx_update_dhcp_bindings(v, property, r, f)

SpecResyncFault == Init /\ [][NextResyncFault]_vars

(* ------------- resync: the enumeration of the ports, as a function ------ *)
\* A device owner is its prefix and the rest: "network:dhcp", "compute:nova".
DEVICE_OWNER_DHCP == <<"network:", "dhcp">>
DEVICE_OWNER_COMPUTE_PREFIX == "compute:"
DeviceOwners == {DEVICE_OWNER_DHCP, <<"compute:", "nova">>,
                 <<"network:", "router_interface">>}
\* device_owner.startswith(const.DEVICE_OWNER_COMPUTE_PREFIX)
IsComputeOwner(device_owner) == device_owner[1] = DEVICE_OWNER_COMPUTE_PREFIX

\* netaddr.IPNetwork(ip).version: an IPv6 address is written with colons.
IpVersion(ip) == IF \E i \in DOMAIN ip : ip[i] = ":" THEN 6 ELSE 4

\* The fixed IP the loop over port['fixed_ips'] processes: IPv6 entries are
\* passed over (continue), and the loop ends after the first other entry
\* (break).
FirstFixedIpAnyVersion(fixed_ips) ==
    IF fixed_ips = <<>> THEN <<>> ELSE <<fixed_ips[1]>>
FirstIPv4(fixed_ips) ==
    LET IsV4(f) == IpVersion(f.ip_address) # 6
        v4 == SelectSeq(fixed_ips, IsV4)
    IN  IF v4 = <<>> THEN <<>> ELSE <<v4[1]>>

\* The calls for a DHCP-owned port: the logical DHCP server is created, the
\* service binding is added, the logical port gets the DHCP attachment.
DhcpServerCalls(port, fixed_ip, dhcp_profile_uuid, server_id) ==
    <<Call("create_dhcp_server",
           <<port.network_id, dhcp_profile_uuid, port.id, fixed_ip.ip_address>>, "ok"),
      Call("add_dhcp_service_binding", <<port.network_id, port.id, server_id>>, "ok"),
      Call("update_logical_port", <<port.id, server_id>>, "ok")>>

\* The loop over the ports: the calls it issues, the DHCP server it records
\* for the logical switch (0: none) and the tuples it collects.
RECURSIVE EnumeratePorts(_, _, _, _)
EnumeratePorts(ports, subs, dhcp_profile_uuid, server_id) ==
    IF ports = <<>>
    THEN [calls |-> <<>>, server_bindings |-> 0, dhcp_port_id |-> None,
          port_bindings |-> <<>>, next_id |-> server_id]
    ELSE LET port == Head(ports)
             ips == IF port.device_owner # DEVICE_OWNER_DHCP
                       /\ ~IsComputeOwner(port.device_owner)
                    THEN <<>> ELSE FirstIPv4(port.fixed_ips)
             isDhcp == ips # <<>> /\ port.device_owner = DEVICE_OWNER_DHCP
             collected == /\ ips # <<>>
                          /\ port.device_owner # DEVICE_OWNER_DHCP
                          /\ subs[ips[1].subnet_id].enable_dhcp
             rest == EnumeratePorts(Tail(ports), subs, dhcp_profile_uuid,
                                    IF isDhcp THEN server_id + 1 ELSE server_id)
         IN  [calls |->
                 (IF isDhcp
                  THEN DhcpServerCalls(port, ips[1], dhcp_profile_uuid, server_id)
                  ELSE <<>>) \o rest.calls,
              server_bindings |->
                 IF rest.server_bindings # 0 THEN rest.server_bindings
                 ELSE IF isDhcp THEN server_id ELSE 0,
              dhcp_port_id |->
                 IF rest.server_bindings # 0 THEN rest.dhcp_port_id
                 ELSE IF isDhcp THEN port.id ELSE None,
              port_bindings |->
                 (IF collected
                  THEN <<[port_id |-> port.id, mac |-> port.mac_address,
                          ip |-> ips[1].ip_address]>>
                  ELSE <<>>) \o rest.port_bindings,
              next_id |-> rest.next_id]

\* What get_ports may return: up to two ports of the network, at most one of
\* them DHCP-owned, with up to two fixed IPs, IPv4 or IPv6.
ResyncSubnetIds == {"s1", "s6"}
ResyncFixedIpEntries ==
    {FixedIpOf(Octets[1]), FixedIpOf(Octets[2]),
     [subnet_id |-> "s6", ip_address |-> <<"f", "d", "0", "0", ":", ":", "3">>]}
ResyncFixedIpLists ==
    {<<>>} \cup {<<a>> : a \in ResyncFixedIpEntries}
           \cup {f \in ResyncFixedIpEntries \X ResyncFixedIpEntries : f[1] # f[2]}
ResyncPort(id, device_owner, fixed_ips) ==
    [id |-> id, device_owner |-> device_owner, network_id |-> NetworkId,
     mac_address |-> IF id = "port1" THEN "11:22:33:44:55:66" ELSE "22:33:44:55:66:77",
     fixed_ips |-> fixed_ips]
ResyncPortLists ==
    {<<ResyncPort("port1", o, f)>> : o \in DeviceOwners, f \in ResyncFixedIpLists}
    \cup {<<ResyncPort("port1", o1, f1), ResyncPort("port2", o2, f2)>> :
             o1 \in DeviceOwners, f1 \in ResyncFixedIpLists,
             o2 \in DeviceOwners \ {DEVICE_OWNER_DHCP}, f2 \in ResyncFixedIpLists}
    \cup {<<ResyncPort("port1", o1, f1), ResyncPort("port2", DEVICE_OWNER_DHCP, f2)>> :
             o1 \in DeviceOwners \ {DEVICE_OWNER_DHCP}, f1 \in ResyncFixedIpLists,
             f2 \in ResyncFixedIpLists}

\* Resync DHCP bindings, run once, given what get_ports and get_subnet
\* return: the enumeration of the ports and then the replay of the collected
\* tuples.
nsx_update_dhcp_bindings_of_ports(ports, subs, dhcp_profile_uuid) ==
    /\ op = NoOp
    /\ \E e \in {EnumeratePorts(ports, subs, dhcp_profile_uuid, next_nsx_id)} :
        LET replayed == IF e.server_bindings = 0 THEN <<>> ELSE e.port_bindings
            BindingId(i) == e.next_id + i - 1
        IN  /\ conf' = ResyncConf(conf, dhcp_profile_uuid)
            /\ dhcp_servers' = dhcp_servers \cup (next_nsx_id..(e.next_id - 1))
            /\ nsx_service_binding' =
                  IF e.server_bindings = 0 THEN nsx_service_binding
                  ELSE [bound |-> TRUE, port_id |-> e.dhcp_port_id,
                        nsx_service_id |-> e.server_bindings]
            /\ dhcp_static_bindings' = dhcp_static_bindings \cup
                  {StaticBinding(e.server_bindings, BindingId(i),
                                 replayed[i].mac, replayed[i].ip) : i \in DOMAIN replayed}
            /\ next_nsx_id' = e.next_id + Len(replayed)
            /\ op' = Done("nsx_update_dhcp_bindings", <<ports, subs, dhcp_profile_uuid>>,
                          "return",
                          e.calls \o [i \in DOMAIN replayed |->
                                         CreateBindingCall(e.server_bindings,
                                                           replayed[i].mac, replayed[i].ip)])
            /\ UNCHANGED <<routerVars, neutron_subnets, neutron_ports, nsx_dhcp_bindings,
                           neutron_network, dhcp_port, prev, threads>>

NextResyncPorts ==
    \E ports \in ResyncPortLists,
       subs \in [ResyncSubnetIds -> [exists : {TRUE}, enable_dhcp : BOOLEAN]] :
        nsx_update_dhcp_bindings_of_ports(ports, subs, "prof1")

SpecResyncPorts == Init /\ [][NextResyncPorts]_vars

(* ------------- port events in flight at the same time ------------------- *)
\* update_port, up to the update of the Neutron port: the caller holds the
\* port as it was. No lock is taken on the port or on the mapping table.
update_port_db(th, port_id, mac, fixed_ips, name) ==
    /\ threads[th].pc = "idle"
    /\ neutron_ports[port_id].exists
    /\ SubnetsExist(fixed_ips)
    /\ neutron_ports' =
           [neutron_ports EXCEPT ![port_id] =
               [exists |-> TRUE, mac_address |-> mac,
                fixed_ips |-> fixed_ips, name |-> name]]
    /\ threads' = [threads EXCEPT ![th] =
                      [pc |-> "port_updated",
                       args |-> <<port_id, mac, fixed_ips, name>>,
                       seen |-> neutron_ports[port_id]]]
    /\ UNCHANGED <<routerVars, neutron_subnets, nsx_service_binding,
                   nsx_dhcp_bindings, dhcp_servers, dhcp_static_bindings,
                   next_nsx_id, conf, neutron_network, dhcp_port, op, prev>>

\* update_port, from the update of the Neutron port on: the rows of the port
\* are read as they are now, and the bindings follow the change from the port
\* the caller holds to the port it wrote, as in update_port.
update_dhcp_binding(th) ==
    LET port_id == threads[th].args[1]
        mac == threads[th].args[2]
        fixed_ips == threads[th].args[3]
        old == threads[th].seen
        NotInOld(f) == \A i \in DOMAIN old.fixed_ips : old.fixed_ips[i] # f
        NotInNew(f) == \A i \in DOMAIN fixed_ips : fixed_ips[i] # f
        server_id == nsx_service_binding.nsx_service_id
        BindingId(i) == next_nsx_id + i - 1
    IN  /\ threads[th].pc = "port_updated"
        /\ \E ips_to_add \in {SelectSeq(fixed_ips, NotInOld)},
              ips_to_delete \in {SelectSeq(old.fixed_ips, NotInNew)},
              rows \in {PortBindingRows(nsx_dhcp_bindings, port_id, old.fixed_ips)} :
           \E changes \in
                 {[i \in DOMAIN rows |->
                     RowChange(rows[i], ips_to_add, ips_to_delete,
                               /\ ips_to_add # <<>>
                               /\ SubnetSeq(ips_to_add) = SubnetSeq(ips_to_delete),
                               MacChanged(old, mac))]} :
           LET Touched(c) == c.kind # "keep"
               touched == SelectSeq(changes, Touched)
               Gained(f) ==
                   \A i \in DOMAIN changes :
                       changes[i].kind = "update" => changes[i].ip # f.ip_address
           IN
           \E gained \in
                 {SelectSeq(DhcpFixedIps(neutron_subnets, nsx_service_binding,
                                         ips_to_add), Gained)} :
           /\ next_nsx_id + Len(gained) - 1 <= MaxNsxId
           /\ nsx_dhcp_bindings' =
                  {r \in nsx_dhcp_bindings : r.port_id # port_id}
                  \cup {[changes[i].row EXCEPT !.ip_address = changes[i].ip] :
                           i \in {j \in DOMAIN changes : changes[j].kind # "delete"}}
                  \cup {BindingRow(port_id, gained[i].ip_address, server_id,
                                   BindingId(i)) : i \in DOMAIN gained}
           /\ dhcp_static_bindings' =
                  {b \in dhcp_static_bindings :
                      \A i \in DOMAIN changes :
                          ~(/\ changes[i].row.nsx_service_id = b.server_id
                            /\ changes[i].row.nsx_binding_id = b.id
                            /\ changes[i].kind # "keep")}
                  \cup {UpdatedStaticBinding(
                            CHOOSE b \in dhcp_static_bindings :
                                /\ changes[i].row.nsx_service_id = b.server_id
                                /\ changes[i].row.nsx_binding_id = b.id,
                            UpdateBindingData(mac, changes[i].ip,
                                              changes[i].row.ip_address)) :
                           i \in {j \in DOMAIN changes : changes[j].kind = "update"}}
                  \cup {StaticBinding(server_id, BindingId(i), mac,
                                      gained[i].ip_address) : i \in DOMAIN gained}
           /\ next_nsx_id' = next_nsx_id + Len(gained)
           /\ op' = DoneUpdate(
                         "update_port", threads[th].args, "return",
                         [i \in DOMAIN touched |-> RowChangeCall(touched[i], mac)]
                         \o [i \in DOMAIN gained |->
                               CreateBindingCall(server_id, mac,
                                                 gained[i].ip_address)],
                         {a \in {"mac_address", "fixed_ips", "name"} :
                             \/ (a = "mac_address" /\ mac # old.mac_address)
                             \/ (a = "fixed_ips" /\ fixed_ips # old.fixed_ips)
                             \/ (a = "name" /\ threads[th].args[4] # old.name)})
        /\ threads' = [threads EXCEPT ![th] = Idle]
        /\ UNCHANGED <<routerVars, neutron_subnets, neutron_ports,
                       nsx_service_binding, dhcp_servers, conf, neutron_network,
                       dhcp_port, prev>>

\* The fixed_ips lists of the ports whose events are in flight together.
RaceFixedIpLists == {<<>>, FixedIpsAt({1})}

NextPortRace ==
    \/ create_network
    \/ \E e \in BOOLEAN : create_subnet("s1", e)
    \/ \E p \in SinglePortIds, m \in ResyncMacAddresses, f \in RaceFixedIpLists,
          n \in ResyncPortNames :
         create_port(p, m, f, n)
    \/ \E th \in Threads, p \in SinglePortIds, m \in ResyncMacAddresses,
          f \in RaceFixedIpLists, n \in ResyncPortNames :
         update_port_db(th, p, m, f, n)
    \/ \E th \in Threads : update_dhcp_binding(th)
    \/ \E p \in SinglePortIds : delete_port(p)

SpecPortRace == InitNative /\ [][NextPortRace]_vars

(* ------------- the teardown of the network's DHCP service --------------- *)
\* The network with its one subnet, compute ports of one address, and the
\* ends of the DHCP-owned port and of the network.
NextTeardown ==
    \/ create_network
    \/ delete_network
    \/ \E e \in BOOLEAN : create_subnet("s1", e)
    \/ \E p \in PortIds, m \in ResyncMacAddresses, f \in OneFixedIpLists,
          n \in ResyncPortNames :
         create_port(p, m, f, n)
    \/ \E p \in PortIds : delete_port(p)
    \/ delete_dhcp_port

SpecTeardown == InitNative /\ [][NextTeardown]_vars

(* ------------------------------ claims ---------------------------------- *)
NumCalls(calls, fn) == Cardinality({i \in DOMAIN calls : calls[i].fn = fn})

\* C1: a validate_tier0 call for a tier0 id that is in the cache returns
\* without a backend call (no get_logical_router, no get_edge_cluster) and
\* leaves the cache as it was, whatever the backend holds by then; so of two
\* consecutive calls for the same id the second, coming after a first that
\* stored the id, fetches nothing: the backend is fetched in the first only.
C1_CacheHitStep ==
    \A t \in Tier0Ids :
        (/\ op'.name = "validate_tier0"
         /\ op'.args = <<t>>
         /\ tier0_groups_dict[t].cached)
        => /\ op'.outcome = "return"
           /\ op'.calls = <<>>
           /\ tier0_groups_dict' = tier0_groups_dict
C1_SecondCall ==
    (/\ op.name = "validate_tier0"
     /\ prev.name = "validate_tier0"
     /\ op.args = prev.args
     /\ prev.outcome = "return")
    => /\ op.calls = <<>>
       /\ NumCalls(prev.calls \o op.calls, "get_logical_router") <= 1
       /\ NumCalls(prev.calls \o op.calls, "get_edge_cluster") <= 1
C1_CacheHit == [][C1_CacheHitStep]_vars /\ []C1_SecondCall
\* A miss that fetched and stored, then a hit on an id whose router has since
\* gone from the backend.
C1_Witness ==
    /\ prev.name = "validate_tier0"
    /\ Len(prev.calls) = 2
    /\ op.name = "validate_tier0"
    /\ op.args = prev.args
    /\ op.calls = <<>>
    /\ \E t \in Tier0Ids : tier0_groups_dict[t].cached /\ ~lrouters[t].found

\* C2: on a cache miss validate_tier0 raises InvalidInput exactly when the
\* router is not at the backend, or it has no edge cluster id, or its edge
\* cluster has fewer than MIN_EDGE_NODE_NUM members; with exactly
\* MIN_EDGE_NODE_NUM members it returns normally.
Tier0Rejected(t) ==
    \/ ~lrouters[t].found
    \/ lrouters[t].edge_cluster_id = None
    \/ /\ edge_clusters[lrouters[t].edge_cluster_id].found
       /\ Len(edge_clusters[lrouters[t].edge_cluster_id].members) < MIN_EDGE_NODE_NUM
C2_MissStep ==
    \A t \in Tier0Ids :
        (/\ op'.name = "validate_tier0"
         /\ op'.args = <<t>>
         /\ ~tier0_groups_dict[t].cached)
        => /\ (op'.outcome = "InvalidInput") <=> Tier0Rejected(t)
           /\ (/\ lrouters[t].found
               /\ lrouters[t].edge_cluster_id # None
               /\ edge_clusters[lrouters[t].edge_cluster_id].found
               /\ Len(edge_clusters[lrouters[t].edge_cluster_id].members)
                      = MIN_EDGE_NODE_NUM)
              => op'.outcome = "return"
C2_InvalidInput == [][C2_MissStep]_vars
\* One tier0 router validated with a cluster of exactly MIN_EDGE_NODE_NUM
\* members, then another rejected for a cluster with none.
C2_Witness ==
    /\ prev.name = "validate_tier0"
    /\ prev.outcome = "return"
    /\ Len(prev.calls) = 2
    /\ Len(tier0_groups_dict[prev.args[1]].member_index_list) = MIN_EDGE_NODE_NUM
    /\ op.name = "validate_tier0"
    /\ op.outcome = "InvalidInput"
    /\ Len(op.calls) = 2
    /\ edge_clusters[lrouters[op.args[1]].edge_cluster_id].members = <<>>

\* C3: remove_router_link_port for a tier1 router without a link port at the
\* backend returns normally, issues no delete_logical_router_port call and
\* changes nothing, however often it is called.
C3_NoLinkPortStep ==
    \A t1 \in Tier1Ids :
        (/\ op'.name = "remove_router_link_port"
         /\ op'.args[1] = t1
         /\ ~\E p \in lrouter_ports :
                p.logical_router_id = t1 /\ p.resource_type = LROUTERPORT_LINK)
        => /\ op'.outcome = "return"
           /\ op'.calls[1].ret = "ResourceNotFound"
           /\ NumCalls(op'.calls, "delete_logical_router_port") = 0
           /\ UNCHANGED <<lrouters, edge_clusters, lrouter_ports, next_port_id,
                          tier0_groups_dict>>
C3_RemoveNoOp == [][C3_NoLinkPortStep]_vars
\* The call was made for a router without a link port while other ports exist.
C3_Witness ==
    /\ op.name = "remove_router_link_port"
    /\ op.outcome = "return"
    /\ Len(op.calls) = 1
    /\ lrouter_ports # {}
    /\ ~\E p \in lrouter_ports :
           p.logical_router_id = op.args[1] /\ p.resource_type = LROUTERPORT_LINK

\* C4: of two consecutive create_logical_router_intf_port_by_ls_id calls with
\* the same logical switch id and different address_groups, the first finding
\* no port on that switch, the first issues exactly one
\* create_logical_router_port call and the second exactly one
\* update_logical_router_port call, for the created port and with the second
\* address_groups as its subnets; there is no second create.
IntfName == "create_logical_router_intf_port_by_ls_id"
C4_TwoCalls ==
    /\ prev.name = IntfName
    /\ op.name = IntfName
    /\ prev.args[2] = op.args[2]
    /\ prev.args[4] # op.args[4]
    /\ prev.calls[1].ret = "ResourceNotFound"
C4_CreateThenUpdate ==
    C4_TwoCalls
    => /\ NumCalls(prev.calls, "create_logical_router_port") = 1
       /\ NumCalls(prev.calls, "update_logical_router_port") = 0
       /\ NumCalls(op.calls, "create_logical_router_port") = 0
       /\ NumCalls(op.calls, "update_logical_router_port") = 1
       /\ op.calls[2].fn = "update_logical_router_port"
       /\ op.calls[2].args[2] = op.args[4]
       /\ Cardinality({p \in lrouter_ports :
                         /\ p.resource_type = LROUTERPORT_DOWNLINK
                         /\ p.linked_logical_switch_port_id[1] = op.args[2]}) = 1
       /\ \A p \in lrouter_ports :
              (/\ p.resource_type = LROUTERPORT_DOWNLINK
               /\ p.linked_logical_switch_port_id[1] = op.args[2])
              => /\ p.id = op.calls[2].args[1]
                 /\ p.subnets = op.args[4]
                 /\ p.linked_logical_switch_port_id = prev.args[3]
C4_Witness ==
    /\ C4_TwoCalls
    /\ prev.args[3] # op.args[3]
    /\ prev.args[1] # op.args[1]

(* ------------------------ native DHCP bindings -------------------------- *)
\* h is 'host-' followed by ip with every dot replaced by a hyphen.
IsHostNameOf(h, ip) ==
    /\ Len(h) = Len(ip) + 5
    /\ SubSeq(h, 1, 5) = <<"h", "o", "s", "t", "-">>
    /\ \A i \in DOMAIN ip : h[i + 5] = (IF ip[i] = "." THEN "-" ELSE ip[i])
    /\ \A i \in DOMAIN h : h[i] # "."
\* options is one option121 static route to the metadata route by way of ip.
IsOption121Of(options, ip) ==
    options.option121.static_routes =
        <<[network |-> NATIVE_METADATA_ROUTE, next_hop |-> ip]>>
\* The DhcpBinding rows of a port.
RowsOf(rows, port_id) == {r \in rows : r.port_id = port_id}
UpdateCalls(calls) == {i \in DOMAIN calls : calls[i].fn = "update_binding"}
DeleteCalls(calls) == {i \in DOMAIN calls : calls[i].fn = "delete_binding"}

\* C5: creating a compute port with one fixed IP in a DHCP-enabled subnet
\* issues exactly one create_binding call, to the server of the network's
\* DhcpServiceBinding, with the port's MAC, the IP, the host name 'host-' and
\* the IP with hyphens for dots, the configured lease time and an option121
\* static route to the metadata route whose next hop is the IP; one DhcpBinding
\* row for (port, ip) results.
C5_OneFixedIp ==
    /\ op.name = "create_port"
    /\ Len(op.args[3]) = 1
    /\ nsx_service_binding.bound
    /\ neutron_subnets[op.args[3][1].subnet_id].enable_dhcp
C5_CreateBinding ==
    C5_OneFixedIp
    => LET ip == op.args[3][1].ip_address
       IN  /\ Len(op.calls) = 1
           /\ op.calls[1].fn = "create_binding"
           /\ op.calls[1].args[1] = nsx_service_binding.nsx_service_id
           /\ op.calls[1].args[1] \in dhcp_servers
           /\ op.calls[1].args[2] = op.args[2]
           /\ op.calls[1].args[3] = ip
           /\ IsHostNameOf(op.calls[1].args[4], ip)
           /\ op.calls[1].args[5] = DHCP_LEASE_TIME
           /\ IsOption121Of(op.calls[1].args[6], ip)
           /\ Cardinality(RowsOf(nsx_dhcp_bindings, op.args[1])) = 1
           /\ \A r \in RowsOf(nsx_dhcp_bindings, op.args[1]) :
                  /\ r.ip_address = ip
                  /\ r.nsx_service_id = nsx_service_binding.nsx_service_id
C5_Witness ==
    /\ C5_OneFixedIp
    /\ op.args[3][1].ip_address = <<"1", "0", ".", "0", ".", "0", ".", "3">>
    /\ op.calls[1].args[4] =
           <<"h", "o", "s", "t", "-", "1", "0", "-", "0", "-", "0", "-", "3">>
    /\ op.calls[1].args[6].option121.static_routes[1].next_hop =
           <<"1", "0", ".", "0", ".", "0", ".", "3">>

\* C6: updating the MAC and/or the fixed IPs of a bound compute port issues
\* exactly one update_binding call per binding, addressed by the
\* (nsx_service_id, nsx_binding_id) its row holds, that carries mac_address and
\* ip_address as they are after the update, and host_name and options (for the
\* new IP) if and only if the binding's IP changed.
C6_UpdateStep ==
    op'.name = "update_port" =>
    LET port_id == op'.args[1]
        mac == op'.args[2]
        fixed_ips == op'.args[3]
        old == neutron_ports[port_id]
        rows == RowsOf(nsx_dhcp_bindings, port_id)
        updates == UpdateCalls(op'.calls)
        UpdatesOf(r) ==
            {i \in updates : /\ op'.calls[i].args[1] = r.nsx_service_id
                             /\ op'.calls[i].args[2] = r.nsx_binding_id}
        mac_only == fixed_ips = old.fixed_ips /\ mac # old.mac_address
        all_ips ==
            /\ Len(fixed_ips) = Len(old.fixed_ips)
            /\ Cardinality(rows) = Len(old.fixed_ips)
            /\ \A i \in DOMAIN fixed_ips, j \in DOMAIN old.fixed_ips :
                   fixed_ips[i] # old.fixed_ips[j]
    IN  (rows # {} /\ (mac_only \/ all_ips))
        => /\ Cardinality(updates) = Cardinality(rows)
           /\ Len(op'.calls) = Cardinality(rows)
           /\ \A r \in rows :
                  /\ Cardinality(UpdatesOf(r)) = 1
                  /\ LET d == op'.calls[CHOOSE i \in UpdatesOf(r) : TRUE].args[3]
                         ip_changed == d.ip_address # r.ip_address
                     IN  /\ {"mac_address", "ip_address"} \subseteq d.keys
                         /\ d.mac_address = mac
                         /\ \E i \in DOMAIN fixed_ips :
                                d.ip_address = fixed_ips[i].ip_address
                         /\ \E n \in RowsOf(nsx_dhcp_bindings', port_id) :
                                /\ n.nsx_service_id = r.nsx_service_id
                                /\ n.nsx_binding_id = r.nsx_binding_id
                                /\ n.ip_address = d.ip_address
                         /\ ip_changed <=> all_ips
                         /\ "host_name" \in d.keys <=> ip_changed
                         /\ "options" \in d.keys <=> ip_changed
                         /\ ip_changed => /\ IsHostNameOf(d.host_name, d.ip_address)
                                          /\ IsOption121Of(d.options, d.ip_address)
C6_UpdateBinding == [][C6_UpdateStep]_vars
C6_Witness ==
    /\ op.name = "update_port"
    /\ op.changed = {"mac_address"}
    /\ Len(op.calls) = 1
    /\ op.calls[1].fn = "update_binding"
    /\ op.calls[1].args[3].keys = {"mac_address", "ip_address"}
    /\ op.calls[1].args[3].mac_address = neutron_ports[op.args[1]].mac_address

\* C7: updating a bound compute port with its MAC and fixed IPs unchanged (its
\* display name, say) issues no update_binding, create_binding or
\* delete_binding call and leaves the port's DhcpBinding rows as they are.
C7_NameStep ==
    (/\ op'.name = "update_port"
     /\ op'.args[2] = neutron_ports[op'.args[1]].mac_address
     /\ op'.args[3] = neutron_ports[op'.args[1]].fixed_ips
     /\ RowsOf(nsx_dhcp_bindings, op'.args[1]) # {})
    => /\ op'.calls = <<>>
       /\ op'.outcome = "return"
       /\ UNCHANGED <<nsx_dhcp_bindings, dhcp_static_bindings, next_nsx_id>>
C7_NoBindingCall == [][C7_NameStep]_vars
C7_Witness ==
    /\ op.name = "update_port"
    /\ op.changed = {"name"}
    /\ op.calls = <<>>
    /\ RowsOf(nsx_dhcp_bindings, op.args[1]) # {}
    /\ neutron_ports[op.args[1]].name = "xyz"

\* C8: when update_port clears the fixed IPs of a compute port, or the port is
\* deleted, exactly one delete_binding call is issued per DhcpBinding row of
\* the port, with the (nsx_service_id, nsx_binding_id) the row holds, and no
\* DhcpBinding row of the port remains.
C8_Removes ==
    \/ op'.name = "delete_port"
    \/ op'.name = "update_port" /\ op'.args[3] = <<>>
C8_RemoveStep ==
    C8_Removes =>
    LET rows == RowsOf(nsx_dhcp_bindings, op'.args[1])
        deletes == DeleteCalls(op'.calls)
    IN  /\ Cardinality(deletes) = Cardinality(rows)
        /\ Len(op'.calls) = Cardinality(rows)
        /\ \A r \in rows :
               Cardinality({i \in deletes :
                   op'.calls[i].args = <<r.nsx_service_id, r.nsx_binding_id>>}) = 1
        /\ RowsOf(nsx_dhcp_bindings', op'.args[1]) = {}
        /\ \A r \in rows :
               ~\E b \in dhcp_static_bindings' :
                   b.server_id = r.nsx_service_id /\ b.id = r.nsx_binding_id
C8_DeleteBinding == [][C8_RemoveStep]_vars
C8_Witness ==
    /\ op.name = "update_port"
    /\ op.args[3] = <<>>
    /\ op.changed = {"fixed_ips"}
    /\ Len(op.calls) = 1
    /\ op.calls[1].fn = "delete_binding"
    /\ op.calls[1].args[2] > 0
    /\ nsx_dhcp_bindings = {}
    /\ dhcp_static_bindings = {}

\* C9: every fixed IP of a compute port in a DHCP-enabled subnet is a binding
\* of its own: a port created with n fixed IPs yields n create_binding calls
\* and n DhcpBinding rows, changing all n IPs yields n update_binding calls,
\* and deleting the port yields n delete_binding calls.
C9_Step ==
    LET port_id == op'.args[1]
        old == neutron_ports[port_id]
        rows == RowsOf(nsx_dhcp_bindings, port_id)
        n == Len(old.fixed_ips)
    IN  /\ (/\ op'.name = "create_port"
            /\ nsx_service_binding.bound
            /\ \A i \in DOMAIN op'.args[3] :
                   neutron_subnets[op'.args[3][i].subnet_id].enable_dhcp)
           => /\ NumCalls(op'.calls, "create_binding") = Len(op'.args[3])
              /\ Len(op'.calls) = Len(op'.args[3])
              /\ Cardinality(RowsOf(nsx_dhcp_bindings', port_id)) = Len(op'.args[3])
              /\ \A i \in DOMAIN op'.args[3] :
                     \E r \in RowsOf(nsx_dhcp_bindings', port_id) :
                         r.ip_address = op'.args[3][i].ip_address
        /\ (/\ op'.name = "update_port"
            /\ Cardinality(rows) = n
            /\ Len(op'.args[3]) = n
            /\ \A i \in DOMAIN op'.args[3], j \in DOMAIN old.fixed_ips :
                   op'.args[3][i] # old.fixed_ips[j])
           => /\ NumCalls(op'.calls, "update_binding") = n
              /\ Len(op'.calls) = n
              /\ Cardinality(RowsOf(nsx_dhcp_bindings', port_id)) = n
        /\ (/\ op'.name = "delete_port"
            /\ Cardinality(rows) = n)
           => /\ NumCalls(op'.calls, "delete_binding") = n
              /\ Len(op'.calls) = n
C9_IndependentBindings == [][C9_Step]_vars
C9_Witness ==
    /\ op.name = "update_port"
    /\ op.changed = {"fixed_ips"}
    /\ Len(op.args[3]) = 2
    /\ NumCalls(op.calls, "update_binding") = 2
    /\ op.calls[1].args[2] # op.calls[2].args[2]
    /\ \A i \in 1..2 : "host_name" \in op.calls[i].args[3].keys
    /\ Cardinality(RowsOf(nsx_dhcp_bindings, op.args[1])) = 2

\* C10: a network never has more than one DHCP-enabled subnet: creating a
\* DHCP-enabled subnet, or enabling DHCP on a subnet, when the network has a
\* DHCP-enabled subnet already fails with InvalidInput, makes no backend call
\* and leaves the subnets and the bindings as they are.
DhcpSubnets(subs) == {s \in SubnetIds : subs[s].exists /\ subs[s].enable_dhcp}
C10_SecondDhcpSubnet ==
    /\ op'.name \in {"create_subnet", "update_subnet"}
    /\ op'.args[2]
    /\ DhcpSubnets(neutron_subnets) \ {op'.args[1]} # {}
    /\ op'.args[1] \notin DhcpSubnets(neutron_subnets)
C10_Step ==
    C10_SecondDhcpSubnet
    => /\ op'.outcome = "InvalidInput"
       /\ op'.calls = <<>>
       /\ UNCHANGED <<neutron_subnets, neutron_ports, nsx_service_binding,
                      nsx_dhcp_bindings, dhcp_servers, dhcp_static_bindings,
                      next_nsx_id>>
C10_OneDhcpSubnet ==
    /\ [](Cardinality(DhcpSubnets(neutron_subnets)) <= 1)
    /\ [][C10_Step]_vars
C10_Witness ==
    /\ op.name = "update_subnet"
    /\ op.outcome = "InvalidInput"
    /\ op.args[2]
    /\ \A s \in SubnetIds : neutron_subnets[s].exists
    /\ Cardinality(DhcpSubnets(neutron_subnets)) = 1
    /\ nsx_dhcp_bindings # {}

\* C11: a network has its DHCP-owned port (and its DHCP service) exactly when
\* it has a DHCP-enabled subnet: none on a new network or with DHCP-disabled
\* subnets only, one once a subnet is created or updated with enable_dhcp, and
\* none again once that subnet or the network is deleted.
C11_DhcpPortIffDhcpSubnet ==
    /\ dhcp_port <=> DhcpSubnets(neutron_subnets) # {}
    /\ dhcp_port <=> nsx_service_binding.bound
    /\ Cardinality(dhcp_servers) = (IF dhcp_port THEN 1 ELSE 0)
    /\ ~neutron_network => ~dhcp_port
    /\ op.name = "create_network" => ~dhcp_port
C11_Witness ==
    /\ op.name = "delete_subnet"
    /\ op.outcome = "return"
    /\ NumCalls(op.calls, "delete_dhcp_server") = 1
    /\ ~dhcp_port
    /\ \E s \in SubnetIds : neutron_subnets[s].exists
    /\ next_nsx_id > 2

\* C12: initialising native DHCP and metadata fails before any backend call,
\* with NsxPluginException when dhcp_agent_notification is on, and with
\* RequiredOptError when dhcp_profile_uuid or metadata_proxy_uuid is empty; it
\* succeeds only with agent notification off and both identifiers set.
C12_Initialised == op.name = "init_dhcp_metadata" /\ conf.native_dhcp_metadata
C12_ConfigurationError ==
    C12_Initialised
    => /\ conf.dhcp_agent_notification
          => op.outcome = "NsxPluginException" /\ op.calls = <<>>
       /\ (/\ ~conf.dhcp_agent_notification
           /\ (conf.dhcp_profile_uuid = "" \/ conf.metadata_proxy_uuid = ""))
          => op.outcome = "RequiredOptError" /\ op.calls = <<>>
       /\ op.outcome = "return"
          <=> /\ ~conf.dhcp_agent_notification
              /\ conf.dhcp_profile_uuid # ""
              /\ conf.metadata_proxy_uuid # ""
       /\ op.outcome # "return" => op.calls = <<>>
C12_Witness ==
    /\ C12_Initialised
    /\ op.outcome = "RequiredOptError"
    /\ conf.dhcp_profile_uuid # ""
    /\ conf.metadata_proxy_uuid = ""

ResyncName == "nsx_update_dhcp_bindings"

\* C13: after any port lifecycle events and resync runs no DHCP server holds
\* more than one binding for the same IP address, and a resync run after a
\* resync run adds nothing: no DHCP server and no binding.
C13_OneBindingPerAddress ==
    \A b1, b2 \in dhcp_static_bindings :
        (b1.server_id = b2.server_id /\ b1.ip_address = b2.ip_address) => b1 = b2
C13_RepeatedRun ==
    (/\ op.name = ResyncName
     /\ op.calls # <<>>
     /\ op'.name = ResyncName
     /\ op'.args = op.args)
    => UNCHANGED <<dhcp_servers, dhcp_static_bindings>>
C13_IdempotentResync == [][C13_RepeatedRun /\ C13_OneBindingPerAddress']_vars

\* The link ports of a tier1 router that are linked to a port of a tier0
\* router.
LinkPortsTo(ports, tier1_uuid, tier0_uuid) ==
    {p \in Tier1LinkPorts(ports, tier1_uuid) :
        \E q \in ports : /\ q.id = p.linked_logical_router_port_id
                         /\ q.logical_router_id = tier0_uuid}

\* C14: after any add_router_link_port and remove_router_link_port calls, also
\* when add_router_link_port is called twice for a pair or retried after a
\* failure, a tier1 router has at most one link port to a tier0 router.
C14_OneLinkPort ==
    \A t1 \in Tier1Ids, t0 \in Tier0Ids :
        Cardinality(LinkPortsTo(lrouter_ports, t1, t0)) <= 1

\* The update_binding calls of an update_port step, each with the row it
\* addresses as the row was before and as it is after.
UpdatedRows ==
    {[call |-> i, was |-> r, now |-> n] :
        i \in UpdateCalls(op'.calls), r \in nsx_dhcp_bindings, n \in nsx_dhcp_bindings'}
BindingUpdates ==
    {u \in UpdatedRows :
        /\ op'.calls[u.call].args[1] = u.was.nsx_service_id
        /\ op'.calls[u.call].args[2] = u.was.nsx_binding_id
        /\ u.now.nsx_service_id = u.was.nsx_service_id
        /\ u.now.nsx_binding_id = u.was.nsx_binding_id}

\* C15 as claimed: the update_binding call carries only the fields that
\* changed; ip_address is left out on a MAC-only change and mac_address on an
\* IP-only change.
C15_OnlyChangedStep ==
    op'.name = "update_port" =>
    \A u \in BindingUpdates :
        LET d == op'.calls[u.call].args[3]
        IN  /\ "mac_address" \in d.keys
               <=> op'.args[2] # neutron_ports[op'.args[1]].mac_address
            /\ "ip_address" \in d.keys <=> u.now.ip_address # u.was.ip_address
C15_OnlyChangedFields == [][C15_OnlyChangedStep]_vars

\* C15 as amended: every update_binding call carries mac_address and
\* ip_address as they are after the update, changed or not, and carries
\* host_name and options exactly when the binding's IP address changed.
C15_AmendedStep ==
    op'.name = "update_port" =>
    /\ \A i \in UpdateCalls(op'.calls) : \E u \in BindingUpdates : u.call = i
    /\ \A u \in BindingUpdates :
           LET d == op'.calls[u.call].args[3]
           IN  /\ d.mac_address = neutron_ports'[op'.args[1]].mac_address
               /\ d.ip_address = u.now.ip_address
               /\ d.keys = {"mac_address", "ip_address"} \cup
                           (IF u.now.ip_address # u.was.ip_address
                            THEN {"host_name", "options"} ELSE {})
C15_MacAndIpAlways == [][C15_AmendedStep]_vars
C15_Witness ==
    /\ op.name = "update_port"
    /\ op.changed = {"fixed_ips"}
    /\ Len(op.calls) = 1
    /\ op.calls[1].fn = "update_binding"
    /\ op.calls[1].args[3].keys =
           {"mac_address", "ip_address", "host_name", "options"}
    /\ op.calls[1].args[3].mac_address = op.args[2]

\* A resync step that is given its property, on a backend of version 1.1.0.
ResyncRuns ==
    /\ op'.name = ResyncName
    /\ IsNsxVersion110(op'.args[1])
    /\ op'.args[2] # None

\* C16 as claimed: invoked with dhcp_agent_notification on or with
\* native_dhcp_metadata off, resync fails with a configuration error, makes no
\* backend call and leaves the mapping table as it is.
C16_FailFastStep ==
    (/\ ResyncRuns
     /\ (conf.dhcp_agent_notification \/ ~conf.native_dhcp_metadata))
    => /\ op'.outcome \in {"NsxPluginException", "RequiredOptError"}
       /\ op'.calls = <<>>
       /\ UNCHANGED <<nsx_service_binding, nsx_dhcp_bindings>>
C16_FailFast == [][C16_FailFastStep]_vars

\* C16 as amended: resync does not check these options, it sets them:
\* whatever they were, after a run that is given dhcp_profile_uuid
\* dhcp_agent_notification is off, native_dhcp_metadata is on and
\* dhcp_profile_uuid is the one given, no configuration error is raised, and
\* with a DHCP-owned port present the backend is called.
C16_AmendedStep ==
    ResyncRuns
    => /\ ~conf'.dhcp_agent_notification
       /\ conf'.native_dhcp_metadata
       /\ conf'.dhcp_profile_uuid = op'.args[2]
       /\ conf'.metadata_proxy_uuid = conf.metadata_proxy_uuid
       /\ op'.outcome \notin {"NsxPluginException", "RequiredOptError"}
       /\ dhcp_port => op'.calls # <<>> /\ op'.calls[1].fn = "create_dhcp_server"
C16_OverridesConf == [][C16_AmendedStep]_vars
C16_Witness ==
    /\ op.name = ResyncName
    /\ op.outcome = "return"
    /\ NumCalls(op.calls, "create_binding") = 1
    /\ conf = [dhcp_agent_notification |-> FALSE, native_dhcp_metadata |-> TRUE,
               dhcp_profile_uuid |-> "prof2", metadata_proxy_uuid |-> ""]
    /\ nsx_dhcp_bindings = {}
    /\ next_nsx_id = 3

\* A resync step that got as far as replaying the bindings: it is given its
\* property, the DHCP-owned port exists and its service binding is stored.
ResyncReplays ==
    /\ ResyncRuns
    /\ dhcp_port
    /\ op'.outcome = "return"
\* The indices of the fixed IPs of a port that lie in a DHCP-enabled subnet.
DhcpFixedIpIndices(port) ==
    {i \in DOMAIN port.fixed_ips :
        neutron_subnets[port.fixed_ips[i].subnet_id].enable_dhcp}
\* The create_binding calls of a resync step for a MAC and an IP address.
ResyncBindingCalls(mac, ip) ==
    {i \in DOMAIN op'.calls :
        /\ op'.calls[i].fn = "create_binding"
        /\ op'.calls[i].args[2] = mac
        /\ op'.calls[i].args[3] = ip}

\* C17 as claimed: resync issues a create_binding call for every fixed IP of
\* every compute port that lies in a DHCP-enabled subnet, not only for the
\* first address of the port.
C17_ExhaustiveStep ==
    ResyncReplays
    => \A p \in PortIds :
          neutron_ports[p].exists
          => \A i \in DhcpFixedIpIndices(neutron_ports[p]) :
                ResyncBindingCalls(neutron_ports[p].mac_address,
                                   neutron_ports[p].fixed_ips[i].ip_address) # {}
C17_Exhaustive == [][C17_ExhaustiveStep]_vars

\* C17 as amended: resync looks at the first fixed IP of a compute port and at
\* no other: it issues one create_binding call for the port, with the port's
\* MAC and that address, when the address lies in a DHCP-enabled subnet, and
\* no create_binding call for the port otherwise, however many further
\* addresses the port has in DHCP-enabled subnets.
C17_AmendedStep ==
    ResyncReplays
    => /\ \A p \in PortIds :
             LET port == neutron_ports[p]
             IN  /\ (port.exists /\ 1 \in DhcpFixedIpIndices(port))
                    => Cardinality(ResyncBindingCalls(port.mac_address,
                                       port.fixed_ips[1].ip_address)) = 1
                 /\ port.exists
                    => \A i \in DOMAIN port.fixed_ips \ {1} :
                          ResyncBindingCalls(port.mac_address,
                                             port.fixed_ips[i].ip_address) = {}
       /\ NumCalls(op'.calls, "create_binding") =
              Cardinality({p \in PortIds :
                             /\ neutron_ports[p].exists
                             /\ 1 \in DhcpFixedIpIndices(neutron_ports[p])})
C17_FirstAddressOnly == [][C17_AmendedStep]_vars
C17_Witness ==
    /\ op.name = ResyncName
    /\ op.outcome = "return"
    /\ \E p \in PortIds :
          /\ neutron_ports[p].exists
          /\ DhcpFixedIpIndices(neutron_ports[p]) = {1, 2}
    /\ NumCalls(op.calls, "create_binding") = 1

\* C18: resync creates a DHCP server and a service binding for the DHCP-owned
\* port only if the network has none: a resync step on a network whose
\* service binding is stored creates no DHCP server, and the network never
\* has more than one DHCP server.
C18_EnsureStep ==
    (ResyncRuns /\ nsx_service_binding.bound)
    => /\ NumCalls(op'.calls, "create_dhcp_server") = 0
       /\ dhcp_servers' = dhcp_servers
C18_OneServer == Cardinality(dhcp_servers) <= 1
C18_EnsuresServer == [][C18_EnsureStep /\ C18_OneServer']_vars

\* C19 as claimed: dhcp_profile_uuid is optional: a resync step that is not
\* given it, on a backend of version 1.1.0 and with the DHCP-owned port
\* present, still performs the pass with the configured profile: it creates
\* the DHCP server and keeps the configured dhcp_profile_uuid.
C19_OptionalStep ==
    (/\ op'.name = ResyncName
     /\ IsNsxVersion110(op'.args[1])
     /\ op'.args[2] = None
     /\ dhcp_port)
    => /\ NumCalls(op'.calls, "create_dhcp_server") = 1
       /\ conf'.dhcp_profile_uuid = conf.dhcp_profile_uuid
C19_AmendedStep ==
    /\ (op'.name = ResyncName /\ op'.args[2] = None)
       => /\ op'.outcome = "return"
          /\ op'.calls = <<>>
          /\ UNCHANGED <<conf, dhcp_servers, dhcp_static_bindings,
                         nsx_service_binding, nsx_dhcp_bindings, next_nsx_id>>
    /\ ResyncRuns => conf'.dhcp_profile_uuid = op'.args[2]
C20_Creates == {i \in DOMAIN op'.calls : op'.calls[i].fn = "create_logical_router_port"}
C20_Tier0Call(c) ==
    /\ c.args[1] = op'.args[2]
    /\ c.args[2] = TIER0_ROUTER_LINK_PORT_NAME
    /\ c.args[3] = LROUTERPORT_LINK
    /\ c.args[4] = NoPortRef
    /\ c.args[5] = None
C20_Tier1Call(c) ==
    /\ c.args[1] = op'.args[1]
    /\ c.args[2] = TIER1_ROUTER_LINK_PORT_NAME
    /\ c.args[3] = LROUTERPORT_LINK
    /\ c.args[4].lsp = NoLsp
    /\ \E p \in lrouter_ports' \ lrouter_ports :
          /\ p.id = c.args[4].port
          /\ p.logical_router_id = op'.args[2]
    /\ c.args[5] = None
    /\ Len(c.args[6]) = MIN_EDGE_NODE_NUM
    /\ \A a, b \in DOMAIN c.args[6] : a # b => c.args[6][a] # c.args[6][b]
    /\ \A a \in DOMAIN c.args[6] :
          \E j \in DOMAIN op'.args[3] : op'.args[3][j] = c.args[6][a]
C20_Step ==
    op'.name = "add_router_link_port"
    => /\ C20_Creates = DOMAIN op'.calls
       /\ Len(op'.calls) \in 1..2
       /\ C20_Tier0Call(op'.calls[1])
       /\ Len(op'.calls) = 2
          => /\ op'.calls[1].ret = "ok"
             /\ C20_Tier1Call(op'.calls[2])
       /\ op'.outcome = "return"
          => /\ Len(op'.calls) = 2
             /\ op'.calls[2].ret = "ok"
C20_TwoCreatesInOrder == [][C20_Step]_vars
C20_Witness ==
    /\ op.name = "add_router_link_port"
    /\ op.outcome = "return"
    /\ Len(op.args[3]) > MIN_EDGE_NODE_NUM
    /\ Len(op.calls) = 2
    /\ op.calls[2].args[4].port > 1

\* C21: add_router_link_port does not compensate: when the tier1 create
\* fails, or the sample fails because edge_members has fewer than
\* MIN_EDGE_NODE_NUM elements, after the tier0 link port was created, the
\* failure is the outcome of the call, no delete call is issued, and the
\* tier0 link port is left at the backend with no port linked to it.
C21_Deletes == {i \in DOMAIN op'.calls : op'.calls[i].fn = "delete_logical_router_port"}
C21_Orphan(p) ==
    /\ p.logical_router_id = op'.args[2]
    /\ p.resource_type = LROUTERPORT_LINK
    /\ p.display_name = TIER0_ROUTER_LINK_PORT_NAME
    /\ lrouter_ports' = lrouter_ports \cup {p}
    /\ ~\E q \in lrouter_ports' : q.linked_logical_router_port_id = p.id
C21_Step ==
    (op'.name = "add_router_link_port" /\ op'.calls[1].ret = "ok")
    => /\ Len(op'.args[3]) < MIN_EDGE_NODE_NUM
          => /\ op'.outcome = "ValueError"
             /\ Len(op'.calls) = 1
       /\ (Len(op'.calls) = 2 /\ op'.calls[2].ret # "ok")
          => op'.outcome = op'.calls[2].ret
       /\ op'.outcome # "return"
          => /\ op'.outcome \in {"ManagerError", "ValueError"}
             /\ C21_Deletes = {}
             /\ \E p \in lrouter_ports' \ lrouter_ports : C21_Orphan(p)
C21_NoCompensation == [][C21_Step]_vars
C21_Witness ==
    /\ op.name = "add_router_link_port"
    /\ op.outcome = "ManagerError"
    /\ Len(op.calls) = 2
    /\ op.calls[1].ret = "ok"
    /\ \E p \in lrouter_ports :
          /\ p.logical_router_id = op.args[2]
          /\ p.resource_type = LROUTERPORT_LINK
          /\ ~\E q \in lrouter_ports : q.linked_logical_router_port_id = p.id

\* C22: when the tier1 router has a link port, remove_router_link_port
\* deletes the tier1 link port first and the tier0 port named by its
\* linked_logical_router_port_id second, never the other way round; a call
\* that returns has issued exactly these two delete calls and neither port
\* exists afterwards, so a tier1 router whose one link port pair came from
\* add_router_link_port has no link port left and the tier0 port is gone.
C22_DeleteCalls == SelectSeq(op'.calls, LAMBDA c : c.fn = "delete_logical_router_port")
C22_Found(p) ==
    /\ p \in Tier1LinkPorts(lrouter_ports, op'.args[1])
    /\ C22_DeleteCalls[1].args[1] = p.id
    /\ Len(C22_DeleteCalls) = 2
       => /\ C22_DeleteCalls[1].ret = "ok"
          /\ C22_DeleteCalls[2].args[1] = p.linked_logical_router_port_id
          /\ \E q \in lrouter_ports :
                /\ q.id = p.linked_logical_router_port_id
                /\ q.logical_router_id \in Tier0Ids
    /\ op'.outcome = "return"
       => /\ Len(C22_DeleteCalls) = 2
          /\ ~\E q \in lrouter_ports' :
                q.id \in {p.id, p.linked_logical_router_port_id}
          /\ Cardinality(lrouter_ports') = Cardinality(lrouter_ports) - 2
          /\ Tier1LinkPorts(lrouter_ports, op'.args[1]) = {p}
             => Tier1LinkPorts(lrouter_ports', op'.args[1]) = {}
C22_Step ==
    (/\ op'.name = "remove_router_link_port"
     /\ Tier1LinkPorts(lrouter_ports, op'.args[1]) # {})
    => /\ Len(C22_DeleteCalls) \in 1..2
       /\ Len(op'.calls) = Len(C22_DeleteCalls) + 1
       /\ op'.calls[1].fn = "get_tier1_logical_router_link_port"
       /\ \E p \in lrouter_ports : C22_Found(p)
C22_Tier1ThenTier0 == [][C22_Step]_vars
C22_Witness ==
    /\ op.name = "remove_router_link_port"
    /\ op.outcome = "return"
    /\ Len(op.calls) = 3
    /\ op.calls[2].args[1] > op.calls[3].args[1]
    /\ Tier1LinkPorts(lrouter_ports, op.args[1]) = {}
    /\ lrouter_ports # {}

\* C23: every entry of the tier0 validation cache records an edge cluster id
\* and a member_index_list of at least MIN_EDGE_NODE_NUM elements; an entry
\* comes into the cache only by a validate_tier0 call for its id that returns
\* normally, and is what the backend held then (the router's edge cluster and
\* the member indices of that cluster, at least MIN_EDGE_NODE_NUM of them); a
\* validate_tier0 call that raises leaves the cache as it was; and no step
\* removes or overwrites an entry.
C23_ValidEntries ==
    \A t \in Tier0Ids :
        tier0_groups_dict[t].cached
        => /\ tier0_groups_dict[t].edge_cluster_uuid \in ClusterIds
           /\ Len(tier0_groups_dict[t].member_index_list) >= MIN_EDGE_NODE_NUM
C23_Inserted(t) ==
    /\ op'.name = "validate_tier0"
    /\ op'.args = <<t>>
    /\ op'.outcome = "return"
    /\ lrouters[t].found
    /\ tier0_groups_dict'[t].edge_cluster_uuid = lrouters[t].edge_cluster_id
    /\ LET c == edge_clusters[lrouters[t].edge_cluster_id]
       IN  /\ c.found
           /\ Len(c.members) >= MIN_EDGE_NODE_NUM
           /\ Len(tier0_groups_dict'[t].member_index_list) = Len(c.members)
           /\ \A i \in DOMAIN c.members :
                 tier0_groups_dict'[t].member_index_list[i] = c.members[i].member_index
C23_Step ==
    /\ \A t \in Tier0Ids :
          /\ tier0_groups_dict[t].cached => tier0_groups_dict'[t] = tier0_groups_dict[t]
          /\ (~tier0_groups_dict[t].cached /\ tier0_groups_dict'[t].cached)
             => C23_Inserted(t)
          /\ ~tier0_groups_dict'[t].cached => tier0_groups_dict'[t] = NotCached
    /\ (op'.name = "validate_tier0" /\ op'.outcome # "return")
       => /\ op'.outcome \in {"InvalidInput", "ResourceNotFound"}
          /\ UNCHANGED tier0_groups_dict
    /\ C23_ValidEntries'
C23_CacheEntries == [][C23_Step]_vars
C23_Witness ==
    /\ op.name = "validate_tier0"
    /\ op.outcome = "ResourceNotFound"
    /\ Len(op.calls) = 2
    /\ \E t \in Tier0Ids :
          /\ tier0_groups_dict[t].cached
          /\ ~lrouters[t].found
    /\ ~tier0_groups_dict[op.args[1]].cached

\* The downlink ports of a router on a logical switch.
DownlinkPorts(ports, logical_router_id, ls_id) ==
    {p \in PortsByLsId(ports, ls_id) : p.logical_router_id = logical_router_id}

\* C24: after any calls of create_logical_router_intf_port_by_ls_id, two of
\* them in flight at the same time included, a router has at most one
\* downlink port on a logical switch.
C24_OneDownlinkPort ==
    \A r \in Tier1Ids, lsp \in LspIds :
        Cardinality(DownlinkPorts(lrouter_ports, r, LsOfPort(lsp))) <= 1

\* C25: first-time validate_tier0 calls for one tier0 id that are in flight
\* at the same time, the backend unchanged meanwhile, converge under every
\* interleaving: when they have ended they have the same outcome, which is
\* the outcome of one sequential validation, and the cache holds for the id
\* what that validation stores (one entry when it returns, none when it
\* raises), however many of the calls fetched from the backend.
C25_Sequential(t) ==
    ValidateTier0([tier0_groups_dict EXCEPT ![t] = NotCached], lrouters,
                  edge_clusters, t)
C25_Fetched(th) == threads[th].pc = "ended" /\ threads[th].seen.calls # <<>>
C25_Convergent ==
    \A th1, th2 \in Threads :
        (/\ threads[th1].pc = "ended"
         /\ threads[th2].pc = "ended"
         /\ threads[th1].args = threads[th2].args
         /\ C25_Fetched(th1))
        => LET t == threads[th1].args[1]
           IN  /\ threads[th1].seen.outcome = threads[th2].seen.outcome
               /\ threads[th1].seen.outcome = C25_Sequential(t).outcome
               /\ threads[th1].seen.calls = C25_Sequential(t).calls
               /\ tier0_groups_dict[t] = C25_Sequential(t).dict[t]
\* Both calls fetched from the backend and both stored the entry.
C25_Witness ==
    /\ \A th \in Threads :
          /\ threads[th].pc = "ended"
          /\ threads[th].args = <<"t0a">>
          /\ threads[th].seen.outcome = "return"
          /\ Len(threads[th].seen.calls) = 2
    /\ tier0_groups_dict["t0a"].cached
    /\ Len(tier0_groups_dict["t0a"].member_index_list) = 2

\* The compute ports of which resync collects a tuple: those whose first
\* fixed IP lies in a DHCP-enabled subnet.
C26_Collected ==
    {p \in PortIds : /\ neutron_ports[p].exists
                     /\ 1 \in DhcpFixedIpIndices(neutron_ports[p])}
C26_CreateBindings == {i \in DOMAIN op'.calls : op'.calls[i].fn = "create_binding"}

\* C26: in a resync run the replay of the bindings is a second phase: every
\* create_binding call comes after the calls that set up the DHCP server
\* (create_dhcp_server, add_dhcp_service_binding, update_logical_port) and is
\* addressed to the DHCP server created in that run for the logical switch;
\* with no DHCP-owned port, hence no DHCP server known to the run, the tuples
\* collected produce no create_binding call.
C26_Step ==
    ResyncRuns
    => /\ \A i \in C26_CreateBindings :
             /\ \A j \in DOMAIN op'.calls \ C26_CreateBindings : j < i
             /\ \E j \in 1..(i - 1) :
                   /\ op'.calls[j].fn = "add_dhcp_service_binding"
                   /\ op'.calls[j].ret = "ok"
                   /\ op'.calls[j].args[3] = op'.calls[i].args[1]
             /\ op'.calls[i].args[1] \in dhcp_servers' \ dhcp_servers
       /\ \A b \in dhcp_static_bindings' \ dhcp_static_bindings :
             b.server_id \in dhcp_servers' \ dhcp_servers
       /\ ~dhcp_port => C26_CreateBindings = {}
       /\ (dhcp_port /\ op'.outcome = "return")
          => Cardinality(C26_CreateBindings) = Cardinality(C26_Collected)
C26_ReplayIsSecondPhase == [][C26_Step]_vars
\* A run that replayed a binding, after a run that had a tuple and no server.
C26_Witness ==
    /\ op.name = ResyncName
    /\ op.outcome = "return"
    /\ Len(op.calls) = 4
    /\ op.calls[4].fn = "create_binding"
    /\ op.calls[4].args[1] = 1
    /\ dhcp_servers = {1}
    /\ next_nsx_id = 3

\* C27: resync does not roll back: when a create_binding call fails, or
\* add_dhcp_service_binding before it, the failure is the outcome of the run,
\* no further call is issued, no delete call is issued, and what the run
\* created before the failure stays: the DHCP server, the service binding
\* once it was stored, and the binding of every create_binding call that
\* succeeded; nothing that was there before the run is removed.
C27_OkCreateBindings ==
    {i \in DOMAIN op'.calls : /\ op'.calls[i].fn = "create_binding"
                              /\ op'.calls[i].ret = "ok"}
C27_Step ==
    (op'.name = ResyncName /\ op'.outcome # "return")
    => LET last == op'.calls[Len(op'.calls)]
       IN  /\ op'.calls # <<>>
           /\ last.ret = op'.outcome
           /\ \A i \in 1..(Len(op'.calls) - 1) : op'.calls[i].ret = "ok"
           /\ \A i \in DOMAIN op'.calls :
                 op'.calls[i].fn \in {"create_dhcp_server", "add_dhcp_service_binding",
                                      "update_logical_port", "create_binding"}
           /\ dhcp_servers \subseteq dhcp_servers'
           /\ dhcp_static_bindings \subseteq dhcp_static_bindings'
           /\ nsx_dhcp_bindings' = nsx_dhcp_bindings
           /\ next_nsx_id \in dhcp_servers'
           /\ last.fn = "create_binding"
              => /\ nsx_service_binding'.bound
                 /\ nsx_service_binding'.nsx_service_id = next_nsx_id
           /\ last.fn = "add_dhcp_service_binding"
              => nsx_service_binding' = nsx_service_binding
           /\ \A i \in C27_OkCreateBindings :
                 \E b \in dhcp_static_bindings' \ dhcp_static_bindings :
                    /\ b.server_id = op'.calls[i].args[1]
                    /\ b.mac_address = op'.calls[i].args[2]
                    /\ b.ip_address = op'.calls[i].args[3]
           /\ Cardinality(dhcp_static_bindings' \ dhcp_static_bindings) =
                  Cardinality(C27_OkCreateBindings)
C27_NoRollback == [][C27_Step]_vars
\* The second create_binding call of a run failed: the first binding stays.
C27_Witness ==
    /\ op.name = ResyncName
    /\ op.outcome = "ManagerError"
    /\ Len(op.calls) = 5
    /\ op.calls[4].ret = "ok"
    /\ op.calls[5].ret = "ManagerError"
    /\ Cardinality(dhcp_static_bindings) = 1
    /\ dhcp_servers = {1}
    /\ nsx_service_binding.bound

\* The ports of a run of resync over given ports, and those of them a DHCP
\* server is created for: the DHCP-owned ports with an IPv4 fixed IP.
C28_Ports == {op'.args[1][i] : i \in DOMAIN op'.args[1]}
C28_IPv4(port) == SelectSeq(port.fixed_ips, LAMBDA f : IpVersion(f.ip_address) = 4)
C28_ServerCalls(port) ==
    {i \in DOMAIN op'.calls : /\ op'.calls[i].fn = "create_dhcp_server"
                              /\ op'.calls[i].args[3] = port.id}
C28_CallsOf(port) ==
    {i \in DOMAIN op'.calls :
        \/ op'.calls[i].fn = "create_binding" /\ op'.calls[i].args[2] = port.mac_address
        \/ op'.calls[i].fn = "create_dhcp_server" /\ op'.calls[i].args[3] = port.id
        \/ op'.calls[i].fn = "add_dhcp_service_binding" /\ op'.calls[i].args[2] = port.id
        \/ op'.calls[i].fn = "update_logical_port" /\ op'.calls[i].args[1] = port.id}

\* C28: in a resync run at most one DHCP server is created for a DHCP-owned
\* port, from the port's first IPv4 fixed IP, IPv6 entries before it passed
\* over and IPv4 entries after it ignored; the create is followed at once by
\* add_dhcp_service_binding for (network, port, server) and then by the
\* update of the logical port to that server; no call carries an IPv6
\* address; and a port that is neither DHCP-owned nor compute-owned gets no
\* call at all.
C28_Step ==
    (op'.name = ResyncName /\ Len(op'.args) = 3)
    => /\ \A port \in C28_Ports :
             /\ port.device_owner = DEVICE_OWNER_DHCP
                => /\ Cardinality(C28_ServerCalls(port)) =
                          (IF C28_IPv4(port) = <<>> THEN 0 ELSE 1)
                   /\ \A i \in C28_ServerCalls(port) :
                         /\ op'.calls[i].args[4] = C28_IPv4(port)[1].ip_address
                         /\ op'.calls[i + 1].fn = "add_dhcp_service_binding"
                         /\ op'.calls[i + 1].args[1] = port.network_id
                         /\ op'.calls[i + 1].args[2] = port.id
                         /\ op'.calls[i + 2].fn = "update_logical_port"
                         /\ op'.calls[i + 2].args =
                                <<port.id, op'.calls[i + 1].args[3]>>
                         /\ op'.calls[i + 1].args[3] \in dhcp_servers' \ dhcp_servers
             /\ port.device_owner # DEVICE_OWNER_DHCP => C28_ServerCalls(port) = {}
             /\ (/\ port.device_owner # DEVICE_OWNER_DHCP
                 /\ port.device_owner[1] # DEVICE_OWNER_COMPUTE_PREFIX)
                => C28_CallsOf(port) = {}
       /\ \A i \in DOMAIN op'.calls :
             /\ op'.calls[i].fn = "create_dhcp_server"
                => IpVersion(op'.calls[i].args[4]) = 4
             /\ op'.calls[i].fn = "create_binding"
                => IpVersion(op'.calls[i].args[3]) = 4
       /\ \A b \in dhcp_static_bindings' : IpVersion(b.ip_address) = 4
C28_FirstIPv4Only == [][C28_Step]_vars
\* The DHCP-owned port has an IPv6 address first and then the IPv4 address
\* the server is built from; the other port, with fixed IPs, is neither
\* DHCP-owned nor compute-owned.
C28_Witness ==
    /\ op.name = ResyncName
    /\ Len(op.args) = 3
    /\ Len(op.args[1]) = 2
    /\ op.args[1][1].device_owner = DEVICE_OWNER_DHCP
    /\ Len(op.args[1][1].fixed_ips) = 2
    /\ IpVersion(op.args[1][1].fixed_ips[1].ip_address) = 6
    /\ op.args[1][2].device_owner = <<"network:", "router_interface">>
    /\ op.args[1][2].fixed_ips # <<>>
    /\ Len(op.calls) = 3
    /\ op.calls[1].args[4] = op.args[1][1].fixed_ips[2].ip_address

\* C29: every binding created at the backend, by a port event or by resync,
\* has its DhcpBinding row: a row of a port with the binding's IP address
\* that holds the ids of the server and of the binding.
C29_Tracked(b) ==
    \E r \in nsx_dhcp_bindings :
        /\ r.nsx_service_id = b.server_id
        /\ r.nsx_binding_id = b.id
        /\ r.ip_address = b.ip_address
        /\ neutron_ports[r.port_id].exists
C29_EveryBindingTracked == \A b \in dhcp_static_bindings : C29_Tracked(b)

\* C30: whatever way the port events interleave, a port update in flight
\* while the port is deleted included, no DhcpBinding row is left for a port
\* that does not exist, and no binding is left at the backend but those the
\* rows of the existing ports hold.
C30_RowOfLivePort(r) == neutron_ports[r.port_id].exists
C30_BindingOfLivePort(b) ==
    \E r \in nsx_dhcp_bindings :
        /\ r.nsx_service_id = b.server_id
        /\ r.nsx_binding_id = b.id
        /\ C30_RowOfLivePort(r)
C31_Teardown ==
    /\ op'.outcome = "return"
    /\ \/ op'.name = "delete_network"
       \/ op'.name = "delete_port" /\ op'.args = <<DhcpPortId>>
C31_Step ==
    /\ (C31_Teardown /\ nsx_service_binding.bound)
       => /\ nsx_service_binding.nsx_service_id \notin dhcp_servers'
          /\ ~nsx_service_binding'.bound
          /\ \A r \in nsx_dhcp_bindings' :
                 r.nsx_service_id # nsx_service_binding.nsx_service_id
          /\ \E i \in DOMAIN op'.calls :
                 /\ op'.calls[i].fn = "delete_dhcp_server"
                 /\ op'.calls[i].args = <<nsx_service_binding.nsx_service_id>>
    /\ \A r \in nsx_dhcp_bindings' : r.nsx_service_id \in dhcp_servers'
C31_TeardownComplete == [][C31_Step]_vars
\* The DHCP-owned port was deleted while a compute port held an address of the
\* DHCP-enabled subnet, bound under the server that went: no row is left.
C31_Witness ==
    /\ op.name = "delete_port"
    /\ op.args = <<DhcpPortId>>
    /\ Len(op.calls) = 1
    /\ op.calls[1].fn = "delete_dhcp_server"
    /\ \E p \in PortIds :
           /\ neutron_ports[p].exists
           /\ \E i \in DOMAIN neutron_ports[p].fixed_ips :
                  /\ neutron_subnets[neutron_ports[p].fixed_ips[i].subnet_id].exists
                  /\ neutron_subnets[neutron_ports[p].fixed_ips[i].subnet_id].enable_dhcp
    /\ nsx_dhcp_bindings = {}
    /\ dhcp_servers = {}

====
